---- MODULE Spec2Model ----
(***************************************************************************)
(* Type inference engine of the compiler workshop (typecheck module).      *)
(*                                                                         *)
(* JavaScript objects are modelled as cells of a store: `types` is the     *)
(* sequence of type objects allocated so far and a type is referred to by  *)
(* its index in that sequence (object identity = index).  A null           *)
(* reference is NULL.  The module-level variables errors, currentScope,    *)
(* nonGeneric and nextTypeVarId are state variables of the same names.     *)
(***************************************************************************)
EXTENDS Integers, Sequences, FiniteSets, TLC

VARIABLES types, errors, currentScope, nonGeneric, nextTypeVarId,
          inferredType, last,
          \* the checker of parse.js: its table, its counter and the
          \* `typeId` fields it writes on the nodes of the tree
          db, nextTypeId, typeId

vars == <<types, errors, currentScope, nonGeneric, nextTypeVarId,
          inferredType, last, db, nextTypeId, typeId>>

(***************************************************************************)
(* Bounds of the model.                                                    *)
(***************************************************************************)
MaxTypes == 5
MaxErrors == 1

NULL == 0

(***************************************************************************)
(* Types: the names of the primitive types.                                *)
(***************************************************************************)
Types ==
  [Number |-> "Number", Float |-> "Float", Bool |-> "Bool",
   String |-> "String", Function |-> "Function", Unknown |-> "Unknown",
   Void |-> "Void", Array |-> "Array"]

(***************************************************************************)
(* The interpreter state threaded through the functions of the module:     *)
(* the store, the four module-level variables, the annotations written on  *)
(* the tree, and `thrown`, the exception that is propagating ("" if none). *)
(***************************************************************************)
State(ts, es, sc, ng, id, it) ==
  [types |-> ts, errors |-> es, currentScope |-> sc, nonGeneric |-> ng,
   nextTypeVarId |-> id, inferredType |-> it, thrown |-> ""]

Current ==
  State(types, errors, currentScope, nonGeneric, nextTypeVarId, inferredType)

Throw(st, exception) ==
  IF st.thrown # "" THEN st ELSE [st EXCEPT !.thrown = exception]

\* Sequencing of two steps of a function body: `const result = ...;` and
\* the statements In that follow it and use the result.
Let(result, In(_)) == In(result)

Cell(kind) ==
  [id |-> NULL, kind |-> kind, type |-> "", name |-> "", symlink |-> NULL,
   paramTypes |-> <<>>, returnType |-> NULL, elementType |-> NULL]

Alloc(st, cell) ==
  [st |-> [st EXCEPT !.types = Append(@, cell)], t |-> Len(st.types) + 1]

createFunctionType(st, paramTypes, returnType) ==
  Alloc(st, [Cell("FunctionType") EXCEPT !.paramTypes = paramTypes,
                                         !.returnType = returnType])

createArrayType(st, elementType) ==
  Alloc(st, [Cell("ArrayType") EXCEPT !.elementType = elementType])

primitive(st, type) ==
  Alloc(st, [Cell("PrimitiveType") EXCEPT !.type = type])

RECURSIVE compress(_, _)
\* compress following one symlink only, without rewriting it
compressOneStep(st, type) ==
  IF st.types[type].kind = "TypeVariable" /\ st.types[type].symlink # NULL
  THEN [st |-> st, t |-> st.types[type].symlink]
  ELSE [st |-> st, t |-> type]

compress(st, type) ==
  IF st.types[type].kind = "TypeVariable" /\ st.types[type].symlink # NULL
  THEN Let(compress(st, st.types[type].symlink), LAMBDA r :
         [st |-> [r.st EXCEPT !.types[type].symlink = r.t], t |-> r.t])
  ELSE [st |-> st, t |-> type]

\* occursIn without the recursion into function and array types
occursInShallow(st, typeVar, type0) ==
  Let(compress(st, type0), LAMBDA c : [st |-> c.st, b |-> c.t = typeVar])

RECURSIVE occursIn(_, _, _)
RECURSIVE occursInSome(_, _, _, _)
occursIn(st, typeVar, type0) ==
  Let(compress(st, type0), LAMBDA c :
    LET type == c.t
        cell == c.st.types[c.t]
    IN  IF type = typeVar THEN [st |-> c.st, b |-> TRUE]
        ELSE IF cell.kind = "FunctionType"
        THEN Let(occursInSome(c.st, typeVar, cell.paramTypes, 1), LAMBDA p :
               IF p.b THEN p ELSE occursIn(p.st, typeVar, cell.returnType))
        ELSE IF cell.kind = "ArrayType"
        THEN occursIn(c.st, typeVar, cell.elementType)
        ELSE [st |-> c.st, b |-> FALSE])

\* paramTypes.some(paramType => occursIn(typeVar, paramType)), from index i
occursInSome(st, typeVar, paramTypes, i) ==
  IF i > Len(paramTypes) THEN [st |-> st, b |-> FALSE]
  ELSE Let(occursIn(st, typeVar, paramTypes[i]), LAMBDA o :
         IF o.b THEN o ELSE occursInSome(o.st, typeVar, paramTypes, i + 1))

RECURSIVE typeToString(_, _)
RECURSIVE paramTypeStrs(_, _, _)
typeToString(st, type0) ==
  Let(compress(st, type0), LAMBDA c :
    LET cell == c.st.types[c.t]
    IN  IF cell.kind = "TypeVariable" THEN [st |-> c.st, s |-> cell.name]
        ELSE IF cell.kind = "PrimitiveType"
        THEN [st |-> c.st, s |-> cell.type]
        ELSE IF cell.kind = "FunctionType"
        THEN Let(paramTypeStrs(c.st, cell.paramTypes, 1), LAMBDA p :
             Let(typeToString(p.st, cell.returnType), LAMBDA r :
               [st |-> r.st, s |-> "(" \o p.s \o ") -> " \o r.s]))
        ELSE IF cell.kind = "ArrayType"
        THEN Let(typeToString(c.st, cell.elementType), LAMBDA e :
               [st |-> e.st, s |-> "Array<" \o e.s \o ">"])
        ELSE [st |-> c.st, s |-> "UnknownType"])

\* paramTypes.map(...).join(", "), from index i
paramTypeStrs(st, paramTypes, i) ==
  IF i > Len(paramTypes) THEN [st |-> st, s |-> ""]
  ELSE Let(compress(st, paramTypes[i]), LAMBDA c :
       Let(typeToString(c.st, paramTypes[i]), LAMBDA t :
       Let(paramTypeStrs(t.st, paramTypes, i + 1), LAMBDA rest :
         LET str == IF c.st.types[c.t].kind = "FunctionType"
                    THEN "(" \o t.s \o ")" ELSE t.s
         IN  [st |-> rest.st,
              s |-> IF i < Len(paramTypes) THEN str \o ", " \o rest.s
                    ELSE str])))

(***************************************************************************)
(* A parse tree node is a record with a `type` field; `position` is        *)
(* present on the nodes the parser builds from a single token.             *)
(***************************************************************************)
Has(node, field) == field \in DOMAIN node

reportError(st, message, node) ==
  LET location ==
        IF Has(node, "position")
        THEN "position " \o ToString(node.position)
        ELSE IF Has(node, "id") /\ Has(node.id, "position")
        THEN "position " \o ToString(node.id.position)
        ELSE "unknown position"
  IN  [st EXCEPT !.errors =
         Append(@, [node |-> node, message |-> message \o " at " \o location])]

\* reportError(`before ${typeToString(t1)} between ${typeToString(t2)}`, node)
reportTypes(st, before, t1, between, t2, node) ==
  Let(typeToString(st, t1), LAMBDA s1 :
  Let(typeToString(s1.st, t2), LAMBDA s2 :
    reportError(s2.st, before \o s1.s \o between \o s2.s, node)))

\* a type variable made without advancing nextTypeVarId
newTypeVarSameId(st) ==
  Alloc(st,
        [Cell("TypeVariable") EXCEPT !.id = st.nextTypeVarId,
                                     !.name = "t" \o ToString(st.nextTypeVarId)])

newTypeVar(st) ==
  Alloc([st EXCEPT !.nextTypeVarId = @ + 1],
        [Cell("TypeVariable") EXCEPT !.id = st.nextTypeVarId,
                                     !.name = "t" \o ToString(st.nextTypeVarId)])

\* map[key] = value on an object, map.set(key, value) on a Map
Put(map, key, value) ==
  [k \in DOMAIN map \cup {key} |-> IF k = key THEN value ELSE map[k]]

RECURSIVE freshInstance(_, _, _)
RECURSIVE freshParamTypes(_, _, _, _)
\* The result carries the store, the fresh type and the Map `mappings`.
freshInstance(st, type0, mappings) ==
  Let(compress(st, type0), LAMBDA c :
    LET type == c.t
        cell == c.st.types[c.t]
    IN  IF cell.kind = "TypeVariable"
        THEN Let(newTypeVar(c.st), LAMBDA v :
               [st |-> v.st, t |-> Put(mappings, type, v.t)[type],
                mappings |-> Put(mappings, type, v.t)])
        ELSE IF cell.kind = "FunctionType"
        THEN Let(freshParamTypes(c.st, cell.paramTypes, 1, mappings),
                 LAMBDA p :
             Let(freshInstance(p.st, cell.returnType, p.mappings), LAMBDA r :
             Let(createFunctionType(r.st, p.ts, r.t), LAMBDA f :
               [st |-> f.st, t |-> f.t, mappings |-> r.mappings])))
        ELSE IF cell.kind = "ArrayType"
        THEN Let(freshInstance(c.st, cell.elementType, mappings), LAMBDA e :
             Let(createArrayType(e.st, e.t), LAMBDA a :
               [st |-> a.st, t |-> a.t, mappings |-> e.mappings]))
        ELSE [st |-> c.st, t |-> type, mappings |-> mappings])

\* type.paramTypes.map(paramType => freshInstance(paramType, mappings))
freshParamTypes(st, paramTypes, i, mappings) ==
  IF i > Len(paramTypes) THEN [ts |-> <<>>, st |-> st, mappings |-> mappings]
  ELSE Let(freshInstance(st, paramTypes[i], mappings), LAMBDA f :
       Let(freshParamTypes(f.st, paramTypes, i + 1, f.mappings), LAMBDA rest :
         [ts |-> <<f.t>> \o rest.ts, st |-> rest.st,
          mappings |-> rest.mappings]))

NewMap == [k \in {} |-> NULL]

(***************************************************************************)
(* currentScope is an object whose prototype chain is the enclosing        *)
(* scopes.  It is modelled as the sequence of the frames of the chain,     *)
(* outermost first: the last frame is the object currentScope refers to.   *)
(* A property read searches the chain from the last frame to the first;    *)
(* a property write goes to the last frame.                                *)
(***************************************************************************)
EmptyScope == [n \in {} |-> NULL]

RECURSIVE ScopeGet(_, _, _)
ScopeGet(scope, name, i) ==
  IF i = 0 THEN NULL
  ELSE IF name \in DOMAIN scope[i] THEN scope[i][name]
  ELSE ScopeGet(scope, name, i - 1)

ScopeSet(st, name, type) ==
  [st EXCEPT !.currentScope[Len(st.currentScope)] = Put(@, name, type)]

\* currentScope[name] of an unbound name is undefined; freshInstance then
\* reads `undefined.kind` inside compress, which raises a TypeError.
getType(st, name) ==
  Let(ScopeGet(st.currentScope, name, Len(st.currentScope)), LAMBDA type :
    IF st.thrown # "" THEN [st |-> st, t |-> NULL]
    ELSE IF type # NULL /\ type \in st.nonGeneric THEN [st |-> st, t |-> type]
    ELSE IF type = NULL THEN [st |-> Throw(st, "TypeError"), t |-> NULL]
    ELSE Let(freshInstance(st, type, NewMap), LAMBDA f :
           [st |-> f.st, t |-> f.t]))

\* unify without the `return` after the infinite-type report
unifyVariableNoReturn(s, t1, t2, node) ==
  IF t1 # t2
  THEN Let(occursIn(s, t1, t2), LAMBDA o :
         IF o.b
         THEN [reportTypes(o.st, "Infinite unification: cannot unify ", t1,
                           " with ", t2, node)
                 EXCEPT !.types[t1].symlink = t2]
         ELSE [o.st EXCEPT !.types[t1].symlink = t2])
  ELSE s

\* Case 1 of unify: the first type is a variable.
unifyVariable(s, t1, t2, node) ==
  IF t1 # t2
  THEN Let(occursIn(s, t1, t2), LAMBDA o :
         IF o.b
         THEN reportTypes(o.st, "Infinite unification: cannot unify ", t1,
                          " with ", t2, node)
         ELSE [o.st EXCEPT !.types[t1].symlink = t2])
  ELSE s

RECURSIVE unify(_, _, _, _)
RECURSIVE unifyParams(_, _, _, _, _)
\* unify without the `return` after the parameter count report
unifyNoReturn(st, a, b, node) ==
  IF st.thrown # "" THEN st
  ELSE
  Let(compress(st, a), LAMBDA c1 :
  Let(compress(c1.st, b), LAMBDA c2 :
    LET t1 == c1.t
        t2 == c2.t
        s == c2.st
        k1 == c2.st.types[c1.t].kind
        k2 == c2.st.types[c2.t].kind
    IN  IF k1 = "TypeVariable"
        THEN unifyVariable(s, t1, t2, node)
        ELSE IF k1 = "FunctionType" /\ k2 = "FunctionType"
        THEN IF Len(s.types[t1].paramTypes) # Len(s.types[t2].paramTypes)
             THEN Let(reportTypes(s, "Function parameter count mismatch: ",
                                  t1, " vs ", t2, node), LAMBDA p :
                    unify(p, p.types[t1].returnType, p.types[t2].returnType,
                          node))
             ELSE Let(unifyParams(s, t1, t2, 1, node), LAMBDA p :
                    unify(p, p.types[t1].returnType, p.types[t2].returnType,
                          node))
        ELSE IF k1 = "ArrayType" /\ k2 = "ArrayType"
        THEN unify(s, s.types[t1].elementType, s.types[t2].elementType, node)
        ELSE IF k1 = "PrimitiveType" /\ k2 = "PrimitiveType"
        THEN IF s.types[t1].type # s.types[t2].type
             THEN reportTypes(s, "Type mismatch: ", t1,
                              " is not compatible with ", t2, node)
             ELSE s
        ELSE IF k2 = "TypeVariable"
        THEN unify(s, t2, t1, node)
        ELSE reportTypes(s, "Cannot unify ", t1, " with ", t2, node)))

unify(st, a, b, node) ==
  IF st.thrown # "" THEN st
  ELSE
  Let(compress(st, a), LAMBDA c1 :
  Let(compress(c1.st, b), LAMBDA c2 :
    LET t1 == c1.t
        t2 == c2.t
        s == c2.st
        k1 == c2.st.types[c1.t].kind
        k2 == c2.st.types[c2.t].kind
    IN  IF k1 = "TypeVariable"
        THEN unifyVariable(s, t1, t2, node)
        ELSE IF k1 = "FunctionType" /\ k2 = "FunctionType"
        THEN IF Len(s.types[t1].paramTypes) # Len(s.types[t2].paramTypes)
             THEN reportTypes(s, "Function parameter count mismatch: ", t1,
                              " vs ", t2, node)
             ELSE Let(unifyParams(s, t1, t2, 1, node), LAMBDA p :
                    unify(p, p.types[t1].returnType, p.types[t2].returnType,
                          node))
        ELSE IF k1 = "ArrayType" /\ k2 = "ArrayType"
        THEN unify(s, s.types[t1].elementType, s.types[t2].elementType, node)
        ELSE IF k1 = "PrimitiveType" /\ k2 = "PrimitiveType"
        THEN IF s.types[t1].type # s.types[t2].type
             THEN reportTypes(s, "Type mismatch: ", t1,
                              " is not compatible with ", t2, node)
             ELSE s
        ELSE IF k2 = "TypeVariable"
        THEN unify(s, t2, t1, node)
        ELSE reportTypes(s, "Cannot unify ", t1, " with ", t2, node)))

\* the loop over the parameters left at the first pair that reports an error
unifyParamsUntilError(st, t1, t2, i, node) ==
  IF i > Len(st.types[t1].paramTypes) THEN st
  ELSE Let(unify(st, st.types[t1].paramTypes[i], st.types[t2].paramTypes[i],
                 node), LAMBDA u :
         IF Len(u.errors) > Len(st.errors) THEN u
         ELSE unifyParams(u, t1, t2, i + 1, node))

\* the loop over the parameters stopping one short
unifyParamsOneShort(st, t1, t2, i, node) ==
  IF i >= Len(st.types[t1].paramTypes) THEN st
  ELSE unifyParams(
         unify(st, st.types[t1].paramTypes[i], st.types[t2].paramTypes[i],
               node),
         t1, t2, i + 1, node)

\* for (let i = 0; i < t1.paramTypes.length; i++) unify(...), from index i
unifyParams(st, t1, t2, i, node) ==
  IF i > Len(st.types[t1].paramTypes) THEN st
  ELSE unifyParams(
         unify(st, st.types[t1].paramTypes[i], st.types[t2].paramTypes[i],
               node),
         t1, t2, i + 1, node)

pushScope(st) ==
  [st EXCEPT !.currentScope = Append(@, EmptyScope)]

(***************************************************************************)
(* infer and the rules it dispatches to.  Every rule returns the state     *)
(* and the inferred type; once an exception is propagating (st.thrown)     *)
(* nothing more is executed.  `path` names the node within the tree, for   *)
(* the inferredType fields written on nodes.                               *)
(***************************************************************************)
Ret(st, t) == [st |-> st, t |-> t]

Child(path, field) == Append(path, field)

Item(path, field, i) == Append(path, field \o ToString(i))

SetInferredType(st, path, t) ==
  [st EXCEPT !.inferredType = Put(@, path, t)]

\* Number.isInteger(value), for a literal value written num / den
IsInteger(value) == value[1] % value[2] = 0

RECURSIVE infer(_, _, _)

RECURSIVE callArguments(_, _, _, _)
\* for (const arg of node.arguments) argTypes.push(infer(arg)), from index i
callArguments(st, node, path, i) ==
  IF st.thrown # "" \/ i > Len(node.arguments) THEN [ts |-> <<>>, st |-> st]
  ELSE Let(infer(st, node.arguments[i], Item(path, "arguments", i)),
           LAMBDA r :
       Let(callArguments(r.st, node, path, i + 1), LAMBDA rest :
         [ts |-> <<r.t>> \o rest.ts, st |-> rest.st]))

RECURSIVE callParameters(_, _, _, _, _)

\* the loop over the arguments stopping one short
callParametersOneShort(st, node, path, fnType, i) ==
  IF st.thrown # "" \/ i >= Len(node.arguments) THEN st
  ELSE Let(infer(st, node.arguments[i], Item(path, "arguments", i)),
           LAMBDA r :
         IF r.st.thrown # "" THEN r.st
         ELSE callParameters(
                unify(r.st, r.st.types[fnType].paramTypes[i], r.t,
                      node.arguments[i]),
                node, path, fnType, i + 1))

\* the loop unifying each parameter type with its argument, from index i
callParameters(st, node, path, fnType, i) ==
  IF st.thrown # "" \/ i > Len(node.arguments) THEN st
  ELSE Let(infer(st, node.arguments[i], Item(path, "arguments", i)),
           LAMBDA r :
         IF r.st.thrown # "" THEN r.st
         ELSE callParameters(
                unify(r.st, r.st.types[fnType].paramTypes[i], r.t,
                      node.arguments[i]),
                node, path, fnType, i + 1))

inferTypeCallExpression(st, node, path) ==
  Let(infer(st, node.callee, Child(path, "callee")), LAMBDA f :
    IF f.st.thrown # "" THEN Ret(f.st, NULL)
    ELSE
    Let(compress(f.st, f.t), LAMBDA c :
      LET fnType == c.t
          cell == c.st.types[c.t]
      IN  IF cell.kind # "FunctionType"
          THEN IF cell.kind = "TypeVariable"
               THEN Let(newTypeVar(c.st), LAMBDA returnType :
                    Let(callArguments(returnType.st, node, path, 1),
                        LAMBDA args :
                      IF args.st.thrown # "" THEN Ret(args.st, NULL)
                      ELSE Let(createFunctionType(args.st, args.ts,
                                                  returnType.t),
                               LAMBDA funcType :
                             Ret(unify(funcType.st, fnType, funcType.t, node),
                                 returnType.t))))
               ELSE newTypeVar(
                      reportError(c.st, "Called value is not a function",
                                  node))
          ELSE IF Len(node.arguments) # Len(cell.paramTypes)
          THEN Ret(reportError(c.st,
                     "Expected " \o ToString(Len(cell.paramTypes))
                       \o " arguments but got "
                       \o ToString(Len(node.arguments)), node),
                   cell.returnType)
          ELSE Let(callParameters(c.st, node, path, fnType, 1), LAMBDA s :
                 IF s.thrown # "" THEN Ret(s, NULL)
                 ELSE Ret(s, cell.returnType))))

RECURSIVE programBody(_, _, _, _, _)
\* for (const statement of node.body) { ... }, from index i
programBody(st, node, path, i, resultType) ==
  IF st.thrown # "" THEN Ret(st, NULL)
  ELSE IF i > Len(node.body) THEN Ret(st, resultType)
  ELSE Let(infer(st, node.body[i], Item(path, "body", i)), LAMBDA r :
         IF r.st.thrown # "" THEN Ret(r.st, NULL)
         ELSE programBody(
                SetInferredType(r.st, Item(path, "body", i), r.t),
                node, path, i + 1, r.t))

inferTypeProgram(st, node, path) ==
  Let(primitive(st, Types.Unknown), LAMBDA resultType :
    programBody(resultType.st, node, path, 1, resultType.t))

inferTypeNumericLiteral(st, node) ==
  IF IsInteger(node.value)
  THEN primitive(st, Types.Number)
  ELSE primitive(st, Types.Float)

inferTypeStringLiteral(st, node) == primitive(st, Types.String)

inferTypeBooleanLiteral(st, node) == primitive(st, Types.Bool)

\* a reference typed with a new type variable instead of the bound type
inferTypeIdentifierUnknown(st, node) == newTypeVar(st)

inferTypeIdentifier(st, node) == getType(st, node.name)

IsPrimitive(st, t, names) ==
  st.types[t].kind = "PrimitiveType" /\ st.types[t].type \in names

\* the left operand alone is unified with the type
unifyOperandsLeft(st, leftType, rightType, type, node) ==
  unify(st, leftType, type, node.left)

\* unify(leftType, type, node.left); unify(rightType, type, node.right)
unifyOperands(st, leftType, rightType, type, node) ==
  unify(unify(st, leftType, type, node.left), rightType, type, node.right)

\* case "+" without the report for a string met with a non-string
inferTypePlusSilent(s, node, leftType, rightType, cl, cr) ==
  IF IsPrimitive(s, cl, {Types.String}) \/ IsPrimitive(s, cr, {Types.String})
  THEN primitive(s, Types.String)
  ELSE Let(primitive(s, Types.Number), LAMBDA resultType :
         Ret(unifyOperands(resultType.st, leftType, rightType, resultType.t,
                           node),
             resultType.t))

\* case "+" of inferTypeBinaryExpression, the operand types compressed
inferTypePlus(s, node, leftType, rightType, cl, cr) ==
  LET leftIsString == IsPrimitive(s, cl, {Types.String})
      rightIsString == IsPrimitive(s, cr, {Types.String})
      numericTypes == {Types.Number, Types.Float}
      leftIsNumeric == IsPrimitive(s, cl, numericTypes)
      rightIsNumeric == IsPrimitive(s, cr, numericTypes)
  IN  IF leftIsString /\ rightIsString
      THEN primitive(s, Types.String)
      ELSE IF leftIsString \/ rightIsString
      THEN primitive(
             reportError(s, "Cannot concatenate string with non-string value",
                         node),
             Types.String)
      ELSE IF /\ leftIsNumeric \/ s.types[cl].kind = "TypeVariable"
              /\ rightIsNumeric \/ s.types[cr].kind = "TypeVariable"
      THEN Let(primitive(s, Types.Number), LAMBDA resultType :
             Ret(unifyOperands(resultType.st, leftType, rightType,
                               resultType.t, node),
                 resultType.t))
      ELSE newTypeVar(
             reportError(s,
               "The '+' operator requires either numeric operands or string operands",
               node))

inferTypeBinaryExpression(st, node, path) ==
  Let(infer(st, node.left, Child(path, "left")), LAMBDA l :
  Let(infer(l.st, node.right, Child(path, "right")), LAMBDA r :
    IF r.st.thrown # "" THEN Ret(r.st, NULL)
    ELSE IF node.operator = "+"
    THEN Let(compress(r.st, l.t), LAMBDA cl :
         Let(compress(cl.st, r.t), LAMBDA cr :
           inferTypePlus(cr.st, node, l.t, r.t, cl.t, cr.t)))
    ELSE IF node.operator \in {"-", "*", "/"}
    THEN Let(primitive(r.st, Types.Number), LAMBDA numericType :
           Ret(unifyOperands(numericType.st, l.t, r.t, numericType.t, node),
               numericType.t))
    ELSE IF node.operator \in {">", "<", ">=", "<="}
    THEN Let(primitive(r.st, Types.Number), LAMBDA numericType :
           primitive(
             unifyOperands(numericType.st, l.t, r.t, numericType.t, node),
             Types.Bool))
    ELSE IF node.operator \in {"==", "!="}
    THEN primitive(unify(r.st, l.t, r.t, node), Types.Bool)
    ELSE newTypeVar(
           reportError(r.st, "Unsupported binary operator: " \o node.operator,
                       node))))

inferTernary(st, node, path) ==
  Let(infer(st, node.test, Child(path, "test")), LAMBDA conditionType :
    IF conditionType.st.thrown # "" THEN Ret(conditionType.st, NULL)
    ELSE
    Let(primitive(conditionType.st, Types.Bool), LAMBDA bool :
    Let(infer(unify(bool.st, conditionType.t, bool.t, node.test),
              node.consequent, Child(path, "consequent")),
        LAMBDA thenBranchType :
    Let(infer(thenBranchType.st, node.alternate, Child(path, "alternate")),
        LAMBDA elseBranchType :
      IF elseBranchType.st.thrown # "" THEN Ret(elseBranchType.st, NULL)
      ELSE
      Let(newTypeVar(elseBranchType.st), LAMBDA resultType :
        Ret(unify(unify(resultType.st, thenBranchType.t, resultType.t,
                        node.consequent),
                  elseBranchType.t, resultType.t, node.alternate),
            resultType.t))))))

RECURSIVE createTypeFromAnnotation(_, _)
RECURSIVE annotationParamTypes(_, _, _)
createTypeFromAnnotation(st, annotation) ==
  IF annotation.type = "TypeAnnotation"
  THEN IF annotation.valueType = "number" THEN primitive(st, Types.Number)
       ELSE IF annotation.valueType = "string" THEN primitive(st, Types.String)
       ELSE IF annotation.valueType = "boolean" THEN primitive(st, Types.Bool)
       ELSE IF annotation.valueType = "void" THEN primitive(st, Types.Void)
       ELSE newTypeVar(st)
  ELSE IF annotation.type = "ArrayTypeAnnotation"
  THEN Let(createTypeFromAnnotation(st, annotation.elementType),
           LAMBDA elementType :
         createArrayType(elementType.st, elementType.t))
  ELSE IF annotation.type = "FunctionTypeAnnotation"
  THEN Let(createTypeFromAnnotation(st, annotation.returnType),
           LAMBDA returnType :
       Let(annotationParamTypes(returnType.st, annotation.paramTypes, 1),
           LAMBDA paramTypes :
         createFunctionType(paramTypes.st, paramTypes.ts, returnType.t)))
  ELSE newTypeVar(st)

\* annotation.paramTypes.map(param => createTypeFromAnnotation(...))
annotationParamTypes(st, params, i) ==
  IF i > Len(params) THEN [ts |-> <<>>, st |-> st]
  ELSE Let(createTypeFromAnnotation(st, params[i].typeAnnotation), LAMBDA t :
       Let(annotationParamTypes(t.st, params, i + 1), LAMBDA rest :
         [ts |-> <<t.t>> \o rest.ts, st |-> rest.st]))

RECURSIVE functionParams(_, _, _)
\* for (const param of node.params) { ... }, from index i
functionParams(st, params, i) ==
  IF i > Len(params) THEN [ts |-> <<>>, st |-> st]
  ELSE Let(IF Has(params[i], "typeAnnotation")
           THEN createTypeFromAnnotation(st, params[i].typeAnnotation)
           ELSE newTypeVar(st), LAMBDA paramType :
       Let(functionParams(
             [ScopeSet(paramType.st, params[i].name, paramType.t)
                EXCEPT !.nonGeneric = @ \cup {paramType.t}],
             params, i + 1), LAMBDA rest :
         [ts |-> <<paramType.t>> \o rest.ts, st |-> rest.st]))

\* node.body.find((stmt) => stmt.type === "ReturnStatement"): its index, or 0
ReturnIndex(body) ==
  LET found == {i \in DOMAIN body : body[i].type = "ReturnStatement"}
  IN  IF found = {} THEN 0 ELSE CHOOSE i \in found : \A j \in found : i <= j

RECURSIVE functionBody(_, _, _, _, _)
\* for (const statement of node.body) infer(statement), skipping index skip
functionBody(st, node, path, i, skip) ==
  IF st.thrown # "" \/ i > Len(node.body) THEN st
  ELSE IF i = skip THEN functionBody(st, node, path, i + 1, skip)
  ELSE functionBody(infer(st, node.body[i], Item(path, "body", i)).st,
                    node, path, i + 1, skip)

\* inferTypeFunction from the return type annotation on
functionType(st, node, paramTypes, outerNonGeneric, inferredReturnType) ==
  IF st.thrown # "" THEN Ret(st, NULL)
  ELSE
  Let(IF Has(node, "returnTypeAnnotation")
      THEN Let(createTypeFromAnnotation(st, node.returnTypeAnnotation),
               LAMBDA t :
             Ret(unify(t.st, inferredReturnType, t.t, node), t.t))
      ELSE Ret(st, inferredReturnType), LAMBDA returnType :
  Let(createFunctionType(returnType.st, paramTypes, returnType.t),
      LAMBDA created :
    \* scopes.pop(): no variable `scopes` is declared in the module, so
    \* evaluating the reference raises a ReferenceError
    Let(Throw(created.st, "ReferenceError"), LAMBDA popped :
      IF popped.thrown # "" THEN Ret(popped, NULL)
      ELSE Ret([popped EXCEPT !.nonGeneric = outerNonGeneric], created.t))))

inferTypeFunction(st, node, path) ==
  Let(functionParams(pushScope(st), node.params, 1), LAMBDA params :
  Let(ReturnIndex(node.body), LAMBDA ri :
    IF ri # 0
    THEN Let(IF Has(node.body[ri], "argument")
             THEN infer(params.st, node.body[ri].argument,
                        Child(Item(path, "body", ri), "argument"))
             ELSE primitive(params.st, Types.Void), LAMBDA first :
           functionType(functionBody(first.st, node, path, 1, ri), node,
                        params.ts, st.nonGeneric, first.t))
    ELSE Let(functionBody(params.st, node, path, 1, 0), LAMBDA all :
           IF all.thrown # "" THEN Ret(all, NULL)
           ELSE Let(primitive(all, Types.Void), LAMBDA void :
                  functionType(void.st, node, params.ts, st.nonGeneric,
                               void.t)))))

RECURSIVE arrayElements(_, _, _, _, _)
\* for (let i = 1; i < node.elements.length; i++) { ... }, from index i
arrayElements(st, node, path, elementType, i) ==
  IF st.thrown # "" \/ i > Len(node.elements) THEN st
  ELSE Let(infer(st, node.elements[i], Item(path, "elements", i)),
           LAMBDA nextElemType :
         arrayElements(
           unify(nextElemType.st, elementType, nextElemType.t,
                 node.elements[i]),
           node, path, elementType, i + 1))

inferTypeArrayLiteral(st, node, path) ==
  IF Len(node.elements) = 0
  THEN Let(newTypeVar(st), LAMBDA elemType :
         createArrayType(elemType.st, elemType.t))
  ELSE Let(infer(st, node.elements[1], Item(path, "elements", 1)),
           LAMBDA elementType :
       Let(arrayElements(elementType.st, node, path, elementType.t, 2),
           LAMBDA rest :
         IF rest.thrown # "" THEN Ret(rest, NULL)
         ELSE createArrayType(rest, elementType.t)))

\* indexing that leaves the type of the index unchecked
inferTypeMemberExpressionAnyIndex(st, node, path) ==
  Let(infer(st, node.object, Child(path, "object")), LAMBDA o :
    IF o.st.thrown # "" THEN Ret(o.st, NULL)
    ELSE
    Let(compress(o.st, o.t), LAMBDA objectType :
    Let(infer(objectType.st, node.index, Child(path, "index")),
        LAMBDA indexType :
      IF indexType.st.thrown # "" THEN Ret(indexType.st, NULL)
      ELSE IF indexType.st.types[objectType.t].kind = "ArrayType"
      THEN Ret(indexType.st, indexType.st.types[objectType.t].elementType)
      ELSE Let(newTypeVar(indexType.st), LAMBDA elementType :
           Let(createArrayType(elementType.st, elementType.t),
               LAMBDA arrayType :
             Ret(unify(arrayType.st, objectType.t, arrayType.t, node.object),
                 elementType.t))))))

inferTypeMemberExpression(st, node, path) ==
  Let(infer(st, node.object, Child(path, "object")), LAMBDA o :
    IF o.st.thrown # "" THEN Ret(o.st, NULL)
    ELSE
    Let(compress(o.st, o.t), LAMBDA objectType :
    Let(infer(objectType.st, node.index, Child(path, "index")),
        LAMBDA indexType :
      IF indexType.st.thrown # "" THEN Ret(indexType.st, NULL)
      ELSE
      Let(primitive(indexType.st, Types.Number), LAMBDA number :
      Let(unify(number.st, indexType.t, number.t, node.index), LAMBDA u :
        IF u.types[objectType.t].kind = "ArrayType"
        THEN Ret(u, u.types[objectType.t].elementType)
        ELSE Let(newTypeVar(u), LAMBDA elementType :
             Let(createArrayType(elementType.st, elementType.t),
                 LAMBDA arrayType :
               Ret(unify(arrayType.st, objectType.t, arrayType.t,
                         node.object),
                   elementType.t))))))))

\* the declaration binding the initializer's type whatever the annotation
inferTypeConstDeclarationInit(st, node, path) ==
  Let(infer(st, node.init, Child(path, "init")), LAMBDA initType :
    IF initType.st.thrown # "" THEN Ret(initType.st, NULL)
    ELSE IF Has(node, "typeAnnotation")
    THEN Let(createTypeFromAnnotation(initType.st, node.typeAnnotation),
             LAMBDA annotatedType :
           Ret(SetInferredType(
                 ScopeSet(unify(annotatedType.st, initType.t, annotatedType.t,
                                node),
                          node.id.name, initType.t),
                 path, initType.t),
               initType.t))
    ELSE Ret(SetInferredType(
               ScopeSet(initType.st, node.id.name, initType.t),
               path, initType.t),
             initType.t))

inferTypeConstDeclaration(st, node, path) ==
  Let(infer(st, node.init, Child(path, "init")), LAMBDA initType :
    IF initType.st.thrown # "" THEN Ret(initType.st, NULL)
    ELSE IF Has(node, "typeAnnotation")
    THEN Let(createTypeFromAnnotation(initType.st, node.typeAnnotation),
             LAMBDA annotatedType :
           Ret(SetInferredType(
                 ScopeSet(unify(annotatedType.st, initType.t, annotatedType.t,
                                node),
                          node.id.name, annotatedType.t),
                 path, annotatedType.t),
               annotatedType.t))
    ELSE Ret(SetInferredType(
               ScopeSet(initType.st, node.id.name, initType.t),
               path, initType.t),
             initType.t))

\* infer(node.argument); with `argument: null` the switch in infer reads
\* `null.type`, which raises a TypeError
inferTypeReturnStatement(st, node, path) ==
  IF Has(node, "argument")
  THEN infer(st, node.argument, Child(path, "argument"))
  ELSE Ret(Throw(st, "TypeError"), NULL)

inferTypeExpressionStatement(st, node, path) ==
  infer(st, node.expression, Child(path, "expression"))

infer(st, node, path) ==
  IF st.thrown # "" THEN Ret(st, NULL)
  ELSE CASE node.type = "Program" -> inferTypeProgram(st, node, path)
         [] node.type = "NumericLiteral" -> inferTypeNumericLiteral(st, node)
         [] node.type = "StringLiteral" -> inferTypeStringLiteral(st, node)
         [] node.type = "BooleanLiteral" -> inferTypeBooleanLiteral(st, node)
         [] node.type = "ArrayLiteral" -> inferTypeArrayLiteral(st, node, path)
         [] node.type = "ExpressionStatement" ->
              inferTypeExpressionStatement(st, node, path)
         [] node.type = "Identifier" -> inferTypeIdentifier(st, node)
         [] node.type = "BinaryExpression" ->
              inferTypeBinaryExpression(st, node, path)
         [] node.type = "ConditionalExpression" -> inferTernary(st, node, path)
         [] node.type = "ArrowFunctionExpression" ->
              inferTypeFunction(st, node, path)
         [] node.type = "CallExpression" ->
              inferTypeCallExpression(st, node, path)
         [] node.type = "MemberExpression" ->
              inferTypeMemberExpression(st, node, path)
         [] node.type = "ConstDeclaration" ->
              inferTypeConstDeclaration(st, node, path)
         [] node.type = "ReturnStatement" ->
              inferTypeReturnStatement(st, node, path)
         [] OTHER ->
              newTypeVar(
                reportError(st, "Unknown node type: " \o node.type, node))

IsArray(node) == Has(node, "array")

NoAnnotations == [p \in {} |-> NULL]

\* the state after the four assignments at the top of typecheck
Reset == State(<<>>, <<>>, <<EmptyScope>>, {}, 0, NoAnnotations)

\* infer(programNode) for an array of statements, infer(node) otherwise
inferRoot(st, node) ==
  IF IsArray(node)
  THEN infer(st, [type |-> "Program", body |-> node.array], <<>>)
  ELSE infer(st, node, <<>>)

\* typecheck that leaves nextTypeVarId as the earlier run left it
typecheckKeepIds(st, node, nameErrors) ==
  IF Len(nameErrors) > 0
  THEN [errors |-> nameErrors,
        st |-> [Reset EXCEPT !.nextTypeVarId = st.nextTypeVarId]]
  ELSE Let(inferRoot([Reset EXCEPT !.nextTypeVarId = st.nextTypeVarId], node),
           LAMBDA r : [errors |-> r.st.errors, st |-> r.st])

\* typecheck that runs the inference before looking at nameErrors
typecheckInferFirst(st, node, nameErrors) ==
  Let(inferRoot(Reset, node), LAMBDA r :
    IF Len(nameErrors) > 0
    THEN [errors |-> nameErrors, st |-> r.st]
    ELSE [errors |-> r.st.errors, st |-> r.st])

(***************************************************************************)
(* typecheck(node, nameErrors).  The four assignments at its top drop      *)
(* every reference the module held to the objects of an earlier run, and   *)
(* the tree passed in is a new one: the store and the annotations start    *)
(* empty.  The result is the final state and the returned `errors`; when   *)
(* st.thrown is set the call ended with that exception instead.            *)
(***************************************************************************)
typecheck(st, node, nameErrors) ==
  IF Len(nameErrors) > 0
  THEN [errors |-> nameErrors, st |-> Reset]
  ELSE Let(inferRoot(Reset, node), LAMBDA r :
         [errors |-> r.st.errors, st |-> r.st])

(***************************************************************************)
(* Parse trees, in the shapes the parser builds.                           *)
(***************************************************************************)
Num(n, pos) ==
  [type |-> "NumericLiteral", position |-> pos, value |-> <<n, 1>>]

Float(n, d, pos) ==
  [type |-> "NumericLiteral", position |-> pos, value |-> <<n, d>>]

Str(v, pos) == [type |-> "StringLiteral", position |-> pos, value |-> v]

Bool(v, pos) == [type |-> "BooleanLiteral", position |-> pos, value |-> v]

Id(name, pos) == [type |-> "Identifier", name |-> name, position |-> pos]

Bin(op, l, r) ==
  [type |-> "BinaryExpression", left |-> l, right |-> r, operator |-> op]

Cond(t, c, a) ==
  [type |-> "ConditionalExpression", test |-> t, consequent |-> c,
   alternate |-> a]

Param(name) == [type |-> "Identifier", name |-> name]

Arrow(params, body) ==
  [type |-> "ArrowFunctionExpression", body |-> body, params |-> params]

Call(callee, args) ==
  [type |-> "CallExpression", arguments |-> args, callee |-> callee]

Arr(elements) == [type |-> "ArrayLiteral", elements |-> elements]

Member(object, index) ==
  [type |-> "MemberExpression", object |-> object, index |-> index]

Const(name, init) ==
  [id |-> Param(name), type |-> "ConstDeclaration", init |-> init]

Return(argument) == [type |-> "ReturnStatement", argument |-> argument]

\* `return;`: the parser sets argument to null, here the field is absent
ReturnNothing == [type |-> "ReturnStatement"]

TypeAnnotation(valueType) ==
  [type |-> "TypeAnnotation", valueType |-> valueType]

FunctionTypeAnnotation(paramTypes, returnType) ==
  [type |-> "FunctionTypeAnnotation",
   paramTypes |-> [i \in DOMAIN paramTypes |->
                     [typeAnnotation |-> paramTypes[i]]],
   returnType |-> returnType]

\* a const declaration with `typeAnnotation` set
ArrayTypeAnnotation(elementType) ==
  [type |-> "ArrayTypeAnnotation", elementType |-> elementType]

AnnotatedConst(name, typeAnnotation, init) ==
  [id |-> Param(name), type |-> "ConstDeclaration",
   typeAnnotation |-> typeAnnotation, init |-> init]

Program(body) == [type |-> "Program", body |-> body]

(***************************************************************************)
(* The unifier exercised directly: the type graphs under test are built    *)
(* with the module's own constructors, then newTypeVar, unify, compress,   *)
(* freshInstance and typeToString are applied to any of their types.       *)
(***************************************************************************)
MaxVars == 3

RECURSIVE Build(_, _, _)
Build(st, items, i) ==
  IF i > Len(items) THEN st
  ELSE LET it == items[i]
           r == IF it[1] = "var" THEN newTypeVar(st)
                ELSE IF it[1] = "prim" THEN primitive(st, it[2])
                ELSE IF it[1] = "array" THEN createArrayType(st, it[2])
                ELSE createFunctionType(st, it[2], it[3])
       IN  Build(r.st, items, i + 1)

Empty == State(<<>>, <<>>, <<EmptyScope>>, {}, 0, NoAnnotations)

Graphs ==
  { \* t0, t1, t2, Number, String
    <<<<"var">>, <<"var">>, <<"var">>, <<"prim", Types.Number>>,
      <<"prim", Types.String>>>>,
    \* t0, Array<t0>, Array<Array<t0>>, Number, (Number) -> Array<t0>
    <<<<"var">>, <<"array", 1>>, <<"array", 2>>, <<"prim", Types.Number>>,
      <<"fn", <<4>>, 2>>>>,
    \* t0, (t0) -> t0
    <<<<"var">>, <<"fn", <<1>>, 1>>>>,
    \* t0, (t0, t0) -> t0
    <<<<"var">>, <<"fn", <<1, 1>>, 1>>>>,
    \* t0, t1, (t0) -> t0, (t1, t0) -> t1
    <<<<"var">>, <<"var">>, <<"fn", <<1>>, 1>>, <<"fn", <<2, 1>>, 2>>>>,
    \* t0, t1, (t0) -> t1, (t0, t1) -> t1
    <<<<"var">>, <<"var">>, <<"fn", <<1>>, 2>>, <<"fn", <<1, 2>>, 2>>>>,
    \* Number, String, t0, t1, (Number, t0) -> t1, (String, Number) -> Number
    <<<<"prim", Types.Number>>, <<"prim", Types.String>>, <<"var">>,
      <<"var">>, <<"fn", <<1, 3>>, 4>>, <<"fn", <<2, 1>>, 1>>>> }

\* The node handed to unify by the direct calls.
TestNode == [type |-> "Identifier", name |-> "x"]

Refs == 1..Len(types)

Install(st) ==
  /\ types' = st.types
  /\ errors' = st.errors
  /\ currentScope' = st.currentScope
  /\ nonGeneric' = st.nonGeneric
  /\ nextTypeVarId' = st.nextTypeVarId
  /\ inferredType' = st.inferredType
  /\ UNCHANGED <<db, nextTypeId, typeId>>

InitUnifier ==
  /\ \E g \in Graphs : LET st == Build(Empty, g, 1) IN
       /\ types = st.types
       /\ nextTypeVarId = st.nextTypeVarId
  /\ errors = <<>>
  /\ currentScope = <<EmptyScope>>
  /\ nonGeneric = {}
  /\ inferredType = NoAnnotations
  /\ last = [op |-> "none"]
  /\ db = <<>>
  /\ nextTypeId = 0
  /\ typeId = <<>>

NewTypeVar ==
  /\ nextTypeVarId < MaxVars
  /\ Len(types) < MaxTypes
  /\ Install(newTypeVar(Current).st)
  /\ UNCHANGED last

Unify(a, b) ==
  /\ Len(errors) < MaxErrors
  /\ Install(unify(Current, a, b, TestNode))
  /\ UNCHANGED last

Compress(a) ==
  /\ Install(compress(Current, a).st)
  /\ UNCHANGED last

FreshInstance(a) ==
  LET f == freshInstance(Current, a, NewMap)
  IN  /\ Len(f.st.types) <= MaxTypes
      /\ f.st.nextTypeVarId <= MaxVars
      /\ Install(f.st)
      /\ UNCHANGED last

TypeToString(a) ==
  /\ Install(typeToString(Current, a).st)
  /\ UNCHANGED last

NextUnifier ==
  \/ NewTypeVar
  \/ \E a \in Refs, b \in Refs : Unify(a, b)
  \/ \E a \in Refs : Compress(a)
  \/ \E a \in Refs : FreshInstance(a)
  \/ \E a \in Refs : TypeToString(a)

SpecUnifier == InitUnifier /\ [][NextUnifier]_vars

(***************************************************************************)
(* Reading the type graph without changing it.                             *)
(***************************************************************************)
RECURSIVE Resolve(_, _)
Resolve(ts, t) ==
  IF ts[t].kind = "TypeVariable" /\ ts[t].symlink # NULL
  THEN Resolve(ts, ts[t].symlink) ELSE t

Range(seq) == {seq[i] : i \in DOMAIN seq}

\* The types a type refers to directly.
Edges(ts, t) ==
  (IF ts[t].symlink # NULL THEN {ts[t].symlink} ELSE {})
    \cup Range(ts[t].paramTypes)
    \cup (IF ts[t].returnType # NULL THEN {ts[t].returnType} ELSE {})
    \cup (IF ts[t].elementType # NULL THEN {ts[t].elementType} ELSE {})

RECURSIVE Closure(_, _)
Closure(ts, set) ==
  LET more == set \cup UNION {Edges(ts, t) : t \in set}
  IN  IF more = set THEN set ELSE Closure(ts, more)

\* The types reachable from t in one or more steps.
Reach(ts, t) == Closure(ts, Edges(ts, t))

Unbound(ts, t) == ts[t].kind = "TypeVariable" /\ ts[t].symlink = NULL

RECURSIVE Identical(_, _, _)
Identical(ts, a, b) ==
  LET x == Resolve(ts, a)
      y == Resolve(ts, b)
  IN  \/ x = y
      \/ /\ ts[x].kind = "PrimitiveType" /\ ts[y].kind = "PrimitiveType"
         /\ ts[x].type = ts[y].type
      \/ /\ ts[x].kind = "ArrayType" /\ ts[y].kind = "ArrayType"
         /\ Identical(ts, ts[x].elementType, ts[y].elementType)
      \/ /\ ts[x].kind = "FunctionType" /\ ts[y].kind = "FunctionType"
         /\ Len(ts[x].paramTypes) = Len(ts[y].paramTypes)
         /\ \A i \in DOMAIN ts[x].paramTypes :
              Identical(ts, ts[x].paramTypes[i], ts[y].paramTypes[i])
         /\ Identical(ts, ts[x].returnType, ts[y].returnType)

InfiniteMessage(ts, v, t) ==
  "Infinite unification: cannot unify " \o typeToString([types |-> ts], v).s
    \o " with " \o typeToString([types |-> ts], t).s \o " at unknown position"

\* C1: in every reachable type graph, a call unify(t1, t2, node) either
\* appends an error or leaves t1 and t2 resolving to structurally identical
\* types.
UnifyEqualOrError ==
  \A a \in Refs, b \in Refs :
    LET r == unify(Current, a, b, TestNode)
    IN  \/ Len(r.errors) > Len(errors)
        \/ Identical(r.types, a, b)

\* two distinct function types were unified without an error
UnifiedFunctions ==
  /\ errors = <<>>
  /\ \E f \in Refs, g \in Refs :
       /\ f # g
       /\ types[f].kind = "FunctionType" /\ types[g].kind = "FunctionType"
       /\ \E v \in Range(types[f].paramTypes) : ~Unbound(types, v)
       /\ Identical(types, f, g)

\* C2: the type graph has no cycle: no type is reachable from itself
\* through symlinks, parameter, return and element references.
NoCycle == \A t \in Refs : t \notin Reach(types, t)

\* a variable is bound to a structured type and an occurs check has failed
BoundAndOccursChecked ==
  /\ \E v \in Refs : /\ types[v].kind = "TypeVariable"
                     /\ types[v].symlink # NULL
                     /\ types[types[v].symlink].kind = "FunctionType"
  /\ \E i \in DOMAIN errors : \E v \in Refs, t \in Refs :
       errors[i].message = InfiniteMessage(types, v, t)

\* v occurs inside the array or function type that t resolves to
OccursInside(ts, v, t) ==
  LET x == Resolve(ts, t)
  IN  /\ x # v
      /\ ts[x].kind \in {"ArrayType", "FunctionType"}
      /\ v \in Reach(ts, x)

InfiniteError(st, r, v, t) ==
  /\ Len(r.errors) = Len(st.errors) + 1
  /\ r.errors[Len(r.errors)].message = InfiniteMessage(st.types, v, t)
  /\ r.types[v].symlink = NULL

\* C3: for an unbound variable v and a type t that contains v inside an
\* array or function type, unify(v, t) and unify(t, v) append exactly one
\* infinite-type error and leave v unbound.
OccursCheckReported ==
  \A v \in Refs, t \in Refs :
    Unbound(types, v) /\ OccursInside(types, v, t) =>
      /\ InfiniteError(Current, unify(Current, v, t, TestNode), v, t)
      /\ InfiniteError(Current, unify(Current, t, v, TestNode), v, t)

\* an infinite-type error was reported for a variable nested two levels
\* deep, and the variable is still unbound
OccursCheckHit ==
  \E v \in Refs, t \in Refs :
    /\ Unbound(types, v)
    /\ OccursInside(types, v, t)
    /\ types[Resolve(types, t)].kind = "ArrayType"
    /\ v \notin Edges(types, Resolve(types, t))
    /\ Len(errors) = 1
    /\ errors[1].message = InfiniteMessage(types, v, t)

\* The pairs <<source variable, variable of the copy>> met when a type and
\* its fresh instance are walked side by side.
RECURSIVE VarPairs(_, _, _)
VarPairs(ts, src, dst) ==
  LET x == Resolve(ts, src)
      y == Resolve(ts, dst)
  IN  IF ts[x].kind = "TypeVariable" THEN {<<x, y>>}
      ELSE IF ts[x].kind = "FunctionType" /\ ts[y].kind = "FunctionType"
              /\ Len(ts[x].paramTypes) = Len(ts[y].paramTypes)
      THEN UNION {VarPairs(ts, ts[x].paramTypes[i], ts[y].paramTypes[i]) :
                    i \in DOMAIN ts[x].paramTypes}
             \cup VarPairs(ts, ts[x].returnType, ts[y].returnType)
      ELSE IF ts[x].kind = "ArrayType" /\ ts[y].kind = "ArrayType"
      THEN VarPairs(ts, ts[x].elementType, ts[y].elementType)
      ELSE {}

\* C7: within one freshInstance call every occurrence of the same unbound
\* source variable is replaced by the same fresh variable.
FreshInstanceConsistent ==
  \A a \in Refs :
    LET r == freshInstance(Current, a, NewMap)
        pairs == VarPairs(r.st.types, a, r.t)
    IN  \A p \in pairs, q \in pairs : p[1] = q[1] => p[2] = q[2]

(***************************************************************************)
(* The module as its callers use it: typecheck is called, any number of    *)
(* times, on the trees of small programs.                                  *)
(***************************************************************************)
MaxStmts == 2

Names == <<"x", "y", "z", "w">>

\* initializers without free identifiers
Closed ==
  { Num(5, 10), Str("hello", 10), Arr(<<>>),
    Arrow(<<Param("a")>>, <<Return(Id("a", 22))>>) }

\* initializers that use the name n
Using(n) ==
  { Id(n, 30), Bin("+", Id(n, 30), Num(1, 34)), Member(Id(n, 30), Num(0, 32)) }

RECURSIVE Bodies(_)
\* the sequences of k const declarations, each using only earlier names
Bodies(k) ==
  IF k = 0 THEN {<<>>}
  ELSE LET inits == Closed \cup UNION {Using(Names[j]) : j \in 1..(k - 1)}
       IN  {Append(b, Const(Names[k], e)) : b \in Bodies(k - 1), e \in inits}

Generated == UNION {Bodies(k) : k \in 0..MaxStmts}

\* const id = (x) => { return x; }; const a = id(5); const b = id("hi");
Polymorphism ==
  <<Const("id", Arrow(<<Param("x")>>, <<Return(Id("x", 25))>>)),
    Const("a", Call(Id("id", 40), <<Num(5, 43)>>)),
    Const("b", Call(Id("id", 57), <<Str("hi", 60)>>))>>

\* const f = (x) => { const ys = [x]; const n = ys[0] + 1; };
LocalArrayOfParam ==
  <<Const("f", Arrow(<<Param("x")>>,
      <<Const("ys", Arr(<<Id("x", 30)>>)),
        Const("n", Bin("+", Member(Id("ys", 44), Num(0, 47)),
                       Num(1, 52)))>>))>>

Examples ==
  { Polymorphism, LocalArrayOfParam,
    \* const x = "hello"; const y = "world"; const z = x + y;
    <<Const("x", Str("hello", 10)), Const("y", Str("world", 29)),
      Const("z", Bin("+", Id("x", 48), Id("y", 52)))>>,
    \* const x = 5; const y = "hello"; const z = x + y;
    <<Const("x", Num(5, 10)), Const("y", Str("hello", 23)),
      Const("z", Bin("+", Id("x", 42), Id("y", 46)))>>,
    \* const x = 5; const y = "hello"; const z = x * y;
    <<Const("x", Num(5, 10)), Const("y", Str("hello", 23)),
      Const("z", Bin("*", Id("x", 42), Id("y", 46)))>>,
    \* const x = 5; const y = x ? 1 : 2;
    <<Const("x", Num(5, 10)),
      Const("y", Cond(Id("x", 23), Num(1, 27), Num(2, 31)))>>,
    \* const x = true; const y = x ? 1 : 2;
    <<Const("x", Bool(TRUE, 10)),
      Const("y", Cond(Id("x", 26), Num(1, 30), Num(2, 34)))>>,
    \* const x = true; const y = x ? 1 : "hello";
    <<Const("x", Bool(TRUE, 10)),
      Const("y", Cond(Id("x", 26), Num(1, 30), Str("hello", 34)))>>,
    \* const arr = [1, "a", 3];
    <<Const("arr", Arr(<<Num(1, 13), Str("a", 16), Num(3, 21)>>))>>,
    \* const arr = [1, 2, 3]; const x = arr[0];
    <<Const("arr", Arr(<<Num(1, 13), Num(2, 16), Num(3, 19)>>)),
      Const("x", Member(Id("arr", 33), Num(0, 37)))>>,
    \* const arr = [1, 2, 3]; const i = "hello"; const x = arr[i];
    <<Const("arr", Arr(<<Num(1, 13), Num(2, 16), Num(3, 19)>>)),
      Const("i", Str("hello", 33)),
      Const("x", Member(Id("arr", 52), Id("i", 56)))>>,
    \* const add = (x) => { return x + 1; }; const result = add(5);
    <<Const("add", Arrow(<<Param("x")>>,
        <<Return(Bin("+", Id("x", 28), Num(1, 32)))>>)),
      Const("result", Call(Id("add", 54), <<Num(5, 58)>>))>>,
    \* const f = (x) => { const y = x; return y; };
    <<Const("f", Arrow(<<Param("x")>>,
        <<Const("y", Id("x", 29)), Return(Id("y", 39))>>))>>,
    \* const f = (x) => { const g = (y) => { return x; }; };
    <<Const("f", Arrow(<<Param("x")>>,
        <<Const("g", Arrow(<<Param("y")>>, <<Return(Id("x", 45))>>))>>))>>,
    \* const f = () => { };
    <<Const("f", Arrow(<<>>, <<>>))>>,
    \* const x = 1; const y = 1.5; const z = x + y;
    <<Const("x", Num(1, 10)), Const("y", Float(3, 2, 23)),
      Const("z", Bin("+", Id("x", 38), Id("y", 42)))>>,
    \* const z = [] == 1;
    <<Const("z", Bin("==", Arr(<<>>), Num(1, 16)))>>,
    \* const x = 5; const y = x(1);
    <<Const("x", Num(5, 10)), Const("y", Call(Id("x", 23), <<Num(1, 25)>>))>>,
    \* return;
    <<ReturnNothing>>,
    \* const p: Point = 5;
    <<AnnotatedConst("p", TypeAnnotation("Point"), Num(5, 17))>>,
    \* const x: number = "hello";
    <<AnnotatedConst("x", TypeAnnotation("number"), Str("hello", 18))>>,
    \* const f: (number, number) => number = [][0];
    \* const g: (string, string) => number = [][0];
    \* const arr = [f, g];
    <<AnnotatedConst("f",
        FunctionTypeAnnotation(
          <<TypeAnnotation("number"), TypeAnnotation("number")>>,
          TypeAnnotation("number")),
        Member(Arr(<<>>), Num(0, 44))),
      AnnotatedConst("g",
        FunctionTypeAnnotation(
          <<TypeAnnotation("string"), TypeAnnotation("string")>>,
          TypeAnnotation("number")),
        Member(Arr(<<>>), Num(0, 92))),
      Const("arr", Arr(<<Id("f", 110), Id("g", 113)>>))>>,
    \* a node of a kind the engine does not know
    <<[type |-> "WhileStatement"]>> }

\* trees on which name resolution reports errors
Unresolved ==
  { \* const y = x;
    <<Const("y", Id("x", 10))>>,
    \* const x = 1; const x = "a";
    <<Const("x", Num(1, 10)), Const("x", Str("a", 23))>> }

NameErrors ==
  { <<[node |-> Id("x", 10), message |-> "Undeclared variable x"]>>,
    <<[node |-> Param("x"), message |-> "Duplicate declaration x"],
      [node |-> Id("x", 10), message |-> "Undeclared variable x"]>> }

\* the arguments of the calls: a Program node or an array of statements,
\* with the errors of name resolution
Inputs ==
  ({Program(b) : b \in Generated \cup Examples}
     \cup {[array |-> b] : b \in Bodies(1)}) \X {<<>>}
  \cup {Program(b) : b \in Unresolved} \X NameErrors

\* The trees handed to typecheck are complete values before the first call;
\* the first conjunct has TLC evaluate them once, ahead of its workers.
Init ==
  /\ \A in \in Inputs : in = in
  /\ types = <<>>
  /\ errors = <<>>
  /\ currentScope = <<EmptyScope>>
  /\ nonGeneric = {}
  /\ nextTypeVarId = 0
  /\ inferredType = NoAnnotations
  /\ last = [op |-> "none"]
  /\ db = <<>>
  /\ nextTypeId = 0
  /\ typeId = <<>>

\* what the module-level variables hold when a call starts
Entry ==
  [inFunction |-> Len(currentScope) > 1 /\ nonGeneric # {},
   variables |-> nextTypeVarId > 0]

\* the module-level variables and the outcome that a call leaves
Returned(r, node, nameErrors) ==
  /\ Install(r.st)
  /\ last' = [errors |-> IF r.st.thrown = "" THEN r.errors ELSE <<>>,
              exception |-> r.st.thrown,
              node |-> node, nameErrors |-> nameErrors,
              op |-> "typecheck",
              entry |-> Entry,
              outcome |-> IF r.st.thrown = "" THEN "returned" ELSE "thrown"]

Typecheck(node, nameErrors) ==
  Returned(typecheck(Current, node, nameErrors), node, nameErrors)

Next == \E in \in Inputs : Typecheck(in[1], in[2])

Spec == Init /\ [][Next]_vars

\* C4: called with a non-empty nameErrors list, typecheck returns exactly
\* that list and performs no inference: no node is annotated, no type
\* variable is created, nothing is bound and no type error is appended.
NameErrorsReturnedUnchanged ==
  last.op = "typecheck" /\ Len(last.nameErrors) > 0 =>
    /\ last.outcome = "returned"
    /\ last.errors = last.nameErrors
    /\ inferredType = NoAnnotations
    /\ nextTypeVarId = 0
    /\ types = <<>>
    /\ currentScope = <<EmptyScope>>
    /\ errors = <<>>

\* a call with two name errors has returned, after an earlier run that had
\* created type variables
NameErrorsCallReturned ==
  /\ last.op = "typecheck"
  /\ Len(last.nameErrors) = 2
  /\ last.errors = last.nameErrors
  /\ last.entry.variables

\* C5: typecheck(tree, []) completes and returns an error list for every
\* tree; it never ends with a thrown exception.
TypecheckAlwaysReturns ==
  last.op = "typecheck" => last.outcome = "returned"

Resolved(name) ==
  Resolve(types, ScopeGet(currentScope, name, Len(currentScope)))

\* C6: for the polymorphic identity program typecheck reports zero errors,
\* a resolves to Number and b to String.
PolymorphismAccepted ==
  last.op = "typecheck" /\ last.node = Program(Polymorphism) =>
    /\ last.outcome = "returned"
    /\ last.errors = <<>>
    /\ IsPrimitive(Current, Resolved("a"), {Types.Number})
    /\ IsPrimitive(Current, Resolved("b"), {Types.String})

VisibleNames == UNION {DOMAIN currentScope[i] : i \in DOMAIN currentScope}

\* the unbound variables of the current non-generic set
NonGenericVars ==
  {v \in {Resolve(types, g) : g \in nonGeneric} : Unbound(types, v)}

\* C8: looking up a name never replaces a variable of the current
\* non-generic set by a fresh one: such a variable occurring in the stored
\* type of the name occurs in the type that getType returns.
GetTypeKeepsNonGeneric ==
  \A n \in VisibleNames :
    LET stored == ScopeGet(currentScope, n, Len(currentScope))
        r == getType(Current, n)
    IN  \A v \in NonGenericVars :
          v \in Closure(types, {stored}) => v \in Closure(r.st.types, {r.t})

\* C9: inferring an ArrowFunctionExpression leaves the scope and the
\* non-generic set as they were: when a run is over (and no lookup failed
\* inside a body) the current scope is the program scope and the
\* non-generic set is empty.
FunctionRestoresScope ==
  last.op = "typecheck" /\ last.exception # "TypeError" =>
    /\ Len(currentScope) = 1
    /\ nonGeneric = {}

\* C10: the outcome of a typecheck call and the module state it leaves are
\* those of the same call made in a newly loaded module, whatever calls ran
\* earlier.
RunsIndependent ==
  last.op = "typecheck" =>
    LET r == typecheck(Empty, last.node, last.nameErrors)
    IN  /\ last.exception = r.st.thrown
        /\ last.outcome = "returned" => last.errors = r.errors
        /\ errors = r.st.errors
        /\ currentScope = r.st.currentScope
        /\ nonGeneric = r.st.nonGeneric
        /\ nextTypeVarId = r.st.nextTypeVarId

\* a run that reports an error naming a generated variable has returned,
\* after an earlier run that stopped inside a function body
RunAfterAbortedRun ==
  /\ last.op = "typecheck"
  /\ last.entry.inFunction
  /\ last.entry.variables
  /\ last.outcome = "returned"
  /\ Len(last.errors) = 1
  /\ last.errors[1].message
       = "Cannot unify Array<t0> with Number at unknown position"

\* the positions of the const declarations among the statements of a program
ConstStatements(node) ==
  {i \in DOMAIN node.body : node.body[i].type = "ConstDeclaration"}

\* the last call was typecheck(program, []) and it returned
ReturnedProgram ==
  /\ last.op = "typecheck"
  /\ last.outcome = "returned"
  /\ last.nameErrors = <<>>
  /\ ~IsArray(last.node)

\* C11: after inference every node that denotes a value carries its inferred
\* type: the Program node, every const declaration of its body and the
\* initializer expression of each of them have an inferredType.
NodesAnnotated ==
  ReturnedProgram =>
    /\ <<>> \in DOMAIN inferredType
    /\ \A i \in ConstStatements(last.node) :
         /\ Item(<<>>, "body", i) \in DOMAIN inferredType
         /\ Child(Item(<<>>, "body", i), "init") \in DOMAIN inferredType

\* operand expressions: a reference to any visible name, or a literal
Operands ==
  {Id(n, 30) : n \in VisibleNames}
    \cup {Num(5, 10), Str("hello", 10), Bool(TRUE, 10), Arr(<<>>)}

\* the type object an expression resolves to when inferred in this state
ResolvedCell(e) ==
  LET r == infer(Current, e, <<>>)
  IN  r.st.types[Resolve(r.st.types, r.t)]

IsString(e) ==
  ResolvedCell(e).kind = "PrimitiveType" /\ ResolvedCell(e).type = Types.String

ConcatenateMessage ==
  "Cannot concatenate string with non-string value at unknown position"

\* C12: a `+` expression of which exactly one operand resolves to String
\* reports exactly one error, about concatenating a string with a
\* non-string value, and still has type String.
PlusMixedReportsOnce ==
  \A l \in Operands, r \in Operands :
    IsString(l) # IsString(r) =>
      LET res == inferTypeBinaryExpression(Current, Bin("+", l, r), <<>>)
      IN  /\ res.st.thrown = ""
          /\ Len(res.st.errors) = Len(errors) + 1
          /\ res.st.errors[Len(res.st.errors)].message = ConcatenateMessage
          /\ IsPrimitive(res.st, Resolve(res.st.types, res.t), {Types.String})

\* const x = 5; const y = "hello"; const z = x + y; has been checked: one
\* error, and z is a String
PlusMixedChecked ==
  /\ ReturnedProgram
  /\ Len(last.node.body) = 3
  /\ last.node.body[3].init = Bin("+", Id("x", 42), Id("y", 46))
  /\ IsPrimitive(Current, Resolved("x"), {Types.Number})
  /\ IsPrimitive(Current, Resolved("y"), {Types.String})
  /\ Len(last.errors) = 1
  /\ last.errors[1].message = ConcatenateMessage
  /\ IsPrimitive(Current, Resolved("z"), {Types.String})

\* message.includes(word)
includes(message, word) ==
  \E i \in 1..(Len(message) - Len(word) + 1) :
    SubSeq(message, i, i + Len(word) - 1) = word

\* pairs of branches of one type
AgreeingBranches ==
  {<<Num(1, 27), Num(2, 31)>>, <<Str("a", 27), Str("b", 33)>>}

IsPrimitiveOtherThan(e, type) ==
  ResolvedCell(e).kind = "PrimitiveType" /\ ResolvedCell(e).type # type

\* C13: a ternary whose test resolves to a primitive type other than Bool
\* and whose branches agree adds exactly one error, whose message mentions
\* the condition; with a test that resolves to Bool it adds none.
TernaryConditionReported ==
  \A test \in Operands, b \in AgreeingBranches :
    LET res == inferTernary(Current, Cond(test, b[1], b[2]), <<>>)
    IN  /\ IsPrimitiveOtherThan(test, Types.Bool) =>
             /\ Len(res.st.errors) = Len(errors) + 1
             /\ includes(res.st.errors[Len(res.st.errors)].message,
                         "condition")
        /\ ~IsPrimitiveOtherThan(test, Types.Bool)
             /\ ResolvedCell(test).kind = "PrimitiveType" =>
             res.st.errors = errors

\* pairs of branches of two primitive types
DifferingBranches ==
  {<<Num(1, 30), Str("hello", 34)>>, <<Str("a", 30), Bool(FALSE, 36)>>}

BoolOperands ==
  {e \in Operands : ~IsPrimitiveOtherThan(e, Types.Bool)
                    /\ ResolvedCell(e).kind = "PrimitiveType"}

\* C14: a ternary with a Bool test whose branches resolve to two primitive
\* types adds exactly one error, whose message mentions the branches, and
\* its type is one new type variable that both branches were unified with.
TernaryBranchesReported ==
  \A test \in BoolOperands, b \in DifferingBranches :
    LET res == inferTernary(Current, Cond(test, b[1], b[2]), <<>>)
    IN  /\ Len(res.st.errors) = Len(errors) + 1
        /\ includes(res.st.errors[Len(res.st.errors)].message, "branches")
        /\ res.t \notin DOMAIN types
        /\ res.st.types[res.t].kind = "TypeVariable"

IsPrimitiveExpr(e) == ResolvedCell(e).kind = "PrimitiveType"

\* 1 if both expressions resolve to primitive types of different names
Mismatch(first, e) ==
  IF ResolvedCell(first).type # ResolvedCell(e).type THEN 1 ELSE 0

\* the number of errors that inferring the expression adds in this state
ErrorsAdded(e) == Len(infer(Current, e, <<>>).st.errors) - Len(errors)

\* C15: in a non-empty array literal every element after the first adds at
\* most one error, whatever the types are, exactly one when it and the first
\* resolve to different primitive types and none when they resolve to the
\* same one; an element after a mismatch is still checked; the literal's
\* type is an array type whose element type is the first element's type.
ArrayElementsReportedOnce ==
  \A first \in Operands, next \in Operands :
    /\ ErrorsAdded(Arr(<<first, next>>)) <= 1
    /\ \A third \in Operands :
         IsPrimitiveExpr(first) /\ IsPrimitiveExpr(next)
           /\ IsPrimitiveExpr(third) =>
             ErrorsAdded(Arr(<<first, next, third>>))
               = Mismatch(first, next) + Mismatch(first, third)
    /\ LET res == inferTypeArrayLiteral(Current, Arr(<<first, next>>), <<>>)
           elementType == infer(Current, first, <<>>).t
       IN  /\ res.st.types[res.t].kind = "ArrayType"
           /\ res.st.types[res.t].elementType = elementType

\* expressions whose type resolves to an array type in this state
ArrayOperands == {e \in Operands : ResolvedCell(e).kind = "ArrayType"}

IndexMessage(node) ==
  "Type mismatch: " \o ResolvedCell(node).type
    \o " is not compatible with Number at position "
    \o ToString(node.position)

Literals ==
  { Num(5, 10), Float(3, 2, 10), Str("hello", 10), Bool(TRUE, 10),
    Arr(<<Num(1, 11), Num(2, 14)>>) }

\* const x = e; const y = x;
Alias(e) == Program(<<Const("x", e), Const("y", Id("x", 30))>>)

\* the names x and y are bound to types that print alike
SameResolvedType(st) ==
  LET x == ScopeGet(st.currentScope, "x", Len(st.currentScope))
      y == ScopeGet(st.currentScope, "y", Len(st.currentScope))
  IN  /\ x # NULL
      /\ y # NULL
      /\ typeToString(st, x).s = typeToString(st, y).s
      /\ st.types[Resolve(st.types, x)].kind
           = st.types[Resolve(st.types, y)].kind

\* C17: for every literal initializer e, typecheck of
\* `const x = e; const y = x;` returns no error and leaves y bound to a type
\* equal to the type of x.
AliasHasSameType ==
  \A e \in Literals :
    LET r == typecheck(Current, Alias(e), <<>>)
    IN  /\ r.st.thrown = ""
        /\ r.errors = <<>>
        /\ SameResolvedType(r.st)

\* `const x = 5; const y = x;` has been checked: no error, y is a Number
AliasChecked ==
  /\ ReturnedProgram
  /\ last.node = Alias(Num(5, 10))
  /\ last.errors = <<>>
  /\ IsPrimitive(Current, Resolved("x"), {Types.Number})
  /\ IsPrimitive(Current, Resolved("y"), {Types.Number})

(***************************************************************************)
(* The type checker of parse.js.  Its state is the table `db`, the list    *)
(* `errors`, the counter `nextTypeId` and the `typeId` fields written on   *)
(* the nodes; a type id n is the entry db[n], held at index n + 1.  The    *)
(* functions thread a record ck of these; once ck.thrown is set the        *)
(* exception propagates and the remaining steps do nothing.  The names     *)
(* reportError and unify of parse.js are taken by the inference module,    *)
(* so they appear as reportTypeError and unifyIds.                         *)
(***************************************************************************)
Checker(table, es, next, ids) ==
  [errors |-> es, db |-> table, nextTypeId |-> next, typeId |-> ids,
   thrown |-> ""]

freshTypeId(ck) ==
  IF ck.thrown # "" THEN [id |-> ck.nextTypeId, ck |-> ck]
  ELSE [id |-> ck.nextTypeId,
        ck |-> [ck EXCEPT !.db = Append(@, [var |-> ck.nextTypeId]),
                          !.nextTypeId = @ + 1]]

reportTypeError(ck, message, node) ==
  IF ck.thrown # "" THEN ck
  ELSE [ck EXCEPT !.errors = Append(@, [node |-> node, message |-> message])]

createConcreteType(ck, typeName) ==
  IF ck.thrown # "" THEN [id |-> ck.nextTypeId, ck |-> ck]
  ELSE [id |-> ck.nextTypeId,
        ck |-> [ck EXCEPT !.db = Append(@, [concrete |-> typeName]),
                          !.nextTypeId = @ + 1]]

RECURSIVE find(_, _)
\* db[typeId] of an id outside the table is undefined, and reading
\* `entry.symlink` then raises a TypeError.
find(ck, id) ==
  IF ck.thrown # "" THEN [id |-> id, ck |-> ck]
  ELSE IF id + 1 \notin DOMAIN ck.db
  THEN [id |-> id, ck |-> Throw(ck, "TypeError")]
  ELSE IF Has(ck.db[id + 1], "symlink")
  THEN Let(find(ck, ck.db[id + 1].symlink), LAMBDA ultimateTypeId :
         IF ultimateTypeId.ck.thrown = ""
            /\ ultimateTypeId.id # ck.db[id + 1].symlink
         THEN [id |-> ultimateTypeId.id,
               ck |-> [ultimateTypeId.ck EXCEPT
                         !.db[id + 1] = [symlink |-> ultimateTypeId.id]]]
         ELSE ultimateTypeId)
  ELSE [id |-> id, ck |-> ck]

\* db[from] = { symlink: to }; return true
Link(ck, from, to) ==
  [ck |-> [ck EXCEPT !.db[from + 1] = [symlink |-> to]], ok |-> TRUE]

\* the body of unify linking two concrete types of different names as well
unifyFoundLinking(ck, a, b) ==
  IF ck.thrown # "" THEN [ck |-> ck, ok |-> FALSE]
  ELSE IF a = b THEN [ck |-> ck, ok |-> TRUE]
  ELSE IF Has(ck.db[a + 1], "concrete") /\ Has(ck.db[b + 1], "concrete")
  THEN [Link(ck, a, b) EXCEPT
          !.ok = ck.db[a + 1].concrete = ck.db[b + 1].concrete]
  ELSE IF Has(ck.db[a + 1], "concrete") THEN Link(ck, b, a)
  ELSE Link(ck, a, b)

\* the body of unify once both ids are found
unifyFound(ck, a, b) ==
  IF ck.thrown # "" THEN [ck |-> ck, ok |-> FALSE]
  ELSE IF a = b THEN [ck |-> ck, ok |-> TRUE]
  ELSE IF Has(ck.db[a + 1], "concrete") /\ Has(ck.db[b + 1], "concrete")
  THEN IF ck.db[a + 1].concrete = ck.db[b + 1].concrete
       THEN Link(ck, a, b)
       ELSE [ck |-> ck, ok |-> FALSE]
  ELSE IF Has(ck.db[a + 1], "concrete") THEN Link(ck, b, a)
  ELSE Link(ck, a, b)

unifyIds(ck, typeId1, typeId2) ==
  Let(find(ck, typeId1), LAMBDA a :
  Let(find(a.ck, typeId2), LAMBDA b :
    unifyFound(b.ck, a.id, b.id)))

\* if (!unify(typeId1, typeId2)) reportError(message, node)
unifyOrReport(ck, typeId1, typeId2, message, node) ==
  Let(unifyIds(ck, typeId1, typeId2), LAMBDA u :
    IF u.ok \/ u.ck.thrown # "" THEN u.ck
    ELSE reportTypeError(u.ck, message, node))

\* The typeId fields on the tree are kept as the list of the pairs
\* <<path of the node, typeId>>, in the order the fields were first set.
HasTypeId(ids, path) == \E i \in DOMAIN ids : ids[i][1] = path

TypeIdOf(ids, path) == ids[CHOOSE i \in DOMAIN ids : ids[i][1] = path][2]

SetTypeId(ck, path, id) ==
  IF ck.thrown # "" THEN ck
  ELSE IF HasTypeId(ck.typeId, path)
  THEN [ck EXCEPT !.typeId[CHOOSE i \in DOMAIN ck.typeId :
                            ck.typeId[i][1] = path] = <<path, id>>]
  ELSE [ck EXCEPT !.typeId = Append(@, <<path, id>>)]

RECURSIVE visitNode(_, _, _)
RECURSIVE visitAll(_, _, _, _, _)
RECURSIVE visitElements(_, _, _, _, _)

visitIdentifier(ck, node, path) ==
  IF HasTypeId(ck.typeId, path)
  THEN [id |-> TypeIdOf(ck.typeId, path), ck |-> ck]
  ELSE Let(freshTypeId(ck), LAMBDA f :
         [id |-> f.id, ck |-> SetTypeId(f.ck, path, f.id)])

SameTypeMessage ==
  "Type mismatch in binary operation: operands must have the same type"

visitBinaryExpression(ck, node, path) ==
  Let(visitNode(ck, node.left, Child(path, "left")), LAMBDA leftType :
  Let(visitNode(leftType.ck, node.right, Child(path, "right")),
      LAMBDA rightType :
    IF node.operator = "*"
    THEN Let(createConcreteType(rightType.ck, "Number"), LAMBDA numberType :
           [id |-> numberType.id,
            ck |-> unifyOrReport(
                     unifyOrReport(numberType.ck, leftType.id, numberType.id,
                       "Type mismatch: expected Number for left operand of '*' operator",
                       node.left),
                     rightType.id, numberType.id,
                     "Type mismatch: expected Number for right operand of '*' operator",
                     node.right)])
    ELSE [id |-> leftType.id,
          ck |-> unifyOrReport(rightType.ck, leftType.id, rightType.id,
                               SameTypeMessage, node)]))

\* for (const param of node.params) param.typeId = freshTypeId(), from i
RECURSIVE visitParams(_, _, _, _)
visitParams(ck, node, path, i) ==
  IF i > Len(node.params) THEN ck
  ELSE Let(freshTypeId(ck), LAMBDA f :
         visitParams(SetTypeId(f.ck, Item(path, "params", i), f.id),
                     node, path, i + 1))

\* The parser gives a block body as an array of statements; visitNode reads
\* its `type`, which is undefined, and takes the default case.
visitArrowFunction(ck, node, path) ==
  Let(freshTypeId(
        reportTypeError(ck,
          "Unknown node type during type checking: undefined",
          [array |-> node.body])),
      LAMBDA bodyType :
    freshTypeId(visitParams(bodyType.ck, node, path, 1)))

\* for (const x of list) visitNode(x), from index i; the result carries the
\* id of the last one visited
visitAll(ck, list, path, field, i) ==
  IF i > Len(list) THEN [id |-> ck.nextTypeId, ck |-> ck]
  ELSE Let(visitNode(ck, list[i], Item(path, field, i)), LAMBDA v :
         IF i = Len(list) THEN v
         ELSE visitAll(v.ck, list, path, field, i + 1))

visitCallExpression(ck, node, path) ==
  Let(visitNode(ck, node.callee, Child(path, "callee")), LAMBDA calleeType :
    freshTypeId(visitAll(calleeType.ck, node.arguments, path, "arguments",
                         1).ck))

visitConstDeclaration(ck, node, path) ==
  Let(visitNode(ck, node.init, Child(path, "init")), LAMBDA initType :
    [id |-> initType.id,
     ck |-> SetTypeId(initType.ck, Child(path, "id"), initType.id)])

visitBlockStatement(ck, node, path) ==
  Let(createConcreteType(ck, "Void"), LAMBDA lastType :
    IF Len(node.body) = 0 THEN lastType
    ELSE visitAll(lastType.ck, node.body, path, "body", 1))

visitReturnStatement(ck, node, path) ==
  IF Has(node, "argument")
  THEN visitNode(ck, node.argument, Child(path, "argument"))
  ELSE createConcreteType(ck, "Void")

ConditionMessage ==
  "Type mismatch: condition in ternary expression must be a Boolean"

BranchesMessage ==
  "Type mismatch: both branches of ternary expression must have the same type"

visitConditionalExpression(ck, node, path) ==
  Let(visitNode(ck, node.test, Child(path, "test")), LAMBDA testType :
  Let(visitNode(testType.ck, node.consequent, Child(path, "consequent")),
      LAMBDA consequentType :
  Let(visitNode(consequentType.ck, node.alternate, Child(path, "alternate")),
      LAMBDA alternateType :
  Let(createConcreteType(alternateType.ck, "Boolean"), LAMBDA booleanType :
    [id |-> consequentType.id,
     ck |-> unifyOrReport(
              unifyOrReport(booleanType.ck, testType.id, booleanType.id,
                            ConditionMessage, node.test),
              consequentType.id, alternateType.id, BranchesMessage, node)]))))

\* for (let i = 1; i < node.elements.length; i++) { ... }, from index i
visitElements(ck, node, path, firstElementType, i) ==
  IF i > Len(node.elements) THEN ck
  ELSE Let(visitNode(ck, node.elements[i], Item(path, "elements", i)),
           LAMBDA elementType :
         visitElements(
           unifyOrReport(elementType.ck, firstElementType, elementType.id,
             "Type mismatch: all elements in an array must have the same type",
             node.elements[i]),
           node, path, firstElementType, i + 1))

visitArrayLiteral(ck, node, path) ==
  IF Len(node.elements) = 0 THEN createConcreteType(ck, "Array")
  ELSE Let(visitNode(ck, node.elements[1], Item(path, "elements", 1)),
           LAMBDA firstElementType :
         createConcreteType(
           visitElements(firstElementType.ck, node, path,
                         firstElementType.id, 2),
           "Array"))

visitMemberExpression(ck, node, path) ==
  Let(visitNode(ck, node.object, Child(path, "object")), LAMBDA objectType :
  Let(visitNode(objectType.ck, node.index, Child(path, "index")),
      LAMBDA indexType :
  Let(createConcreteType(indexType.ck, "Number"), LAMBDA numberType :
    freshTypeId(
      unifyOrReport(numberType.ck, indexType.id, numberType.id,
                    "Type mismatch: array index must be a Number",
                    node.index)))))

visitNode(ck, node, path) ==
  IF ck.thrown # "" THEN [id |-> ck.nextTypeId, ck |-> ck]
  ELSE IF node.type = "ConstDeclaration"
  THEN visitConstDeclaration(ck, node, path)
  ELSE IF node.type = "ArrowFunctionExpression"
  THEN visitArrowFunction(ck, node, path)
  ELSE IF node.type = "Identifier" THEN visitIdentifier(ck, node, path)
  ELSE IF node.type = "ReturnStatement"
  THEN visitReturnStatement(ck, node, path)
  ELSE IF node.type = "BinaryExpression"
  THEN visitBinaryExpression(ck, node, path)
  ELSE IF node.type = "ConditionalExpression"
  THEN visitConditionalExpression(ck, node, path)
  ELSE IF node.type = "CallExpression"
  THEN visitCallExpression(ck, node, path)
  ELSE IF node.type = "ArrayLiteral" THEN visitArrayLiteral(ck, node, path)
  ELSE IF node.type = "MemberExpression"
  THEN visitMemberExpression(ck, node, path)
  ELSE IF node.type = "BlockStatement"
  THEN visitBlockStatement(ck, node, path)
  ELSE IF node.type = "StringLiteral" THEN createConcreteType(ck, "String")
  ELSE IF node.type = "NumericLiteral" THEN createConcreteType(ck, "Number")
  ELSE IF node.type = "BooleanLiteral"
  THEN createConcreteType(ck, "Boolean")
  ELSE freshTypeId(
         reportTypeError(ck,
           "Unknown node type during type checking: " \o node.type, node))

\* typeCheck(statements): the three resets, then the loop over the
\* statements, which raises a TypeError on a value that is not iterable,
\* such as the Program node that parse returns.  The `typeId` fields
\* already on the tree are kept.
typeCheck(ids, statements) ==
  IF IsArray(statements)
  THEN visitAll(Checker(<<>>, <<>>, 0, ids), statements.array, <<>>, "body",
                1).ck
  ELSE Throw(Checker(<<>>, <<>>, 0, ids), "TypeError")

(***************************************************************************)
(* typeCheck of parse.js called on parse trees: on a tree as parse built   *)
(* it, or once more on the tree of the last call, whose nodes still carry  *)
(* the typeId fields of that call.                                         *)
(***************************************************************************)
Trees ==
  {Program(b) : b \in Generated \cup Examples}
    \cup {[array |-> b] : b \in Generated \cup Examples}

\* the module-level variables and the outcome that a call of typeCheck leaves
Checked(ck, node, again) ==
  /\ db' = ck.db
  /\ errors' = ck.errors
  /\ nextTypeId' = ck.nextTypeId
  /\ typeId' = ck.typeId
  /\ last' = [errors |-> IF ck.thrown = "" THEN ck.errors ELSE <<>>,
              exception |-> ck.thrown, node |-> node,
              op |-> "typeCheck",
              outcome |-> IF ck.thrown = "" THEN "returned" ELSE "thrown",
              again |-> again]
  /\ UNCHANGED <<types, currentScope, nonGeneric, nextTypeVarId,
                 inferredType>>

TypeCheck(node) == Checked(typeCheck(<<>>, node), node, FALSE)

TypeCheckAgain ==
  /\ last.op = "typeCheck"
  /\ Checked(typeCheck(typeId, last.node), last.node, TRUE)

InitParse ==
  /\ \A tree \in Trees : tree = tree
  /\ Init

NextParse ==
  \/ \E node \in Trees : TypeCheck(node)
  \/ TypeCheckAgain

SpecParse == InitParse /\ [][NextParse]_vars

\* the concrete type names an id resolves to in the table: none for a
\* type variable
RECURSIVE ConcreteNames(_, _)
ConcreteNames(table, id) ==
  IF Has(table[id + 1], "symlink")
  THEN ConcreteNames(table, table[id + 1].symlink)
  ELSE IF Has(table[id + 1], "concrete") THEN {table[id + 1].concrete}
  ELSE {}

\* typeCheck was called on an array of statements as parse built them, and
\* it returned
CheckedStatements ==
  /\ last.op = "typeCheck"
  /\ ~last.again
  /\ IsArray(last.node)
  /\ last.outcome = "returned"

\* the statements that declare a const whose initializer is a reference to
\* the const of an earlier statement, with that statement
Aliases(body) ==
  {p \in (DOMAIN body) \X (DOMAIN body) :
     /\ p[1] < p[2]
     /\ body[p[1]].type = "ConstDeclaration"
     /\ body[p[2]].type = "ConstDeclaration"
     /\ body[p[2]].init.type = "Identifier"
     /\ body[p[2]].init.name = body[p[1]].id.name}

\* const x = 5; const y = "hello"; const z = x * y;
Multiplication ==
  <<Const("x", Num(5, 10)), Const("y", Str("hello", 23)),
    Const("z", Bin("*", Id("x", 42), Id("y", 46)))>>

\* const x = 5; const y = x ? 1 : 2;
TernaryOnNumber ==
  <<Const("x", Num(5, 10)),
    Const("y", Cond(Id("x", 23), Num(1, 27), Num(2, 31)))>>

\* C18: typeCheck of parse.js gives a reference to a const the type of the
\* const's initializer; it reports exactly one type mismatch for
\* `const x = 5; const y = "hello"; const z = x * y;` and exactly one error,
\* about the condition, for `const x = 5; const y = x ? 1 : 2;`.
UsagesConsistent ==
  CheckedStatements =>
    /\ \A p \in Aliases(last.node.array) :
         ConcreteNames(db, TypeIdOf(typeId, Child(Item(<<>>, "body", p[2]),
                                                  "init")))
           = ConcreteNames(db, TypeIdOf(typeId, Child(Item(<<>>, "body", p[1]),
                                                    "id")))
    /\ last.node.array = Multiplication =>
         /\ Len(last.errors) = 1
         /\ includes(last.errors[1].message, "Type mismatch")
    /\ last.node.array = TernaryOnNumber =>
         /\ Len(last.errors) = 1
         /\ includes(last.errors[1].message, "condition")


\* the operands of the `+` expressions examined: those above and 2.5
PlusOperands == Operands \cup {Float(5, 2, 10)}

\* the operand resolves to Number or Float, or to an unbound type variable
IsNumericOrVariable(e) ==
  \/ ResolvedCell(e).kind = "TypeVariable"
  \/ /\ ResolvedCell(e).kind = "PrimitiveType"
     /\ ResolvedCell(e).type \in {Types.Number, Types.Float}

\* what unify(t, Number, node) leaves in the store st: t resolves to
\* Number, or a mismatch was reported on the node
UnifiedWithNumber(st, t, node) ==
  \/ IsPrimitive(st, Resolve(st.types, t), {Types.Number})
  \/ \E i \in (Len(errors) + 1)..Len(st.errors) : st.errors[i].node = node

\* the type of the left operand and, after it, of the right operand
LeftType(l) == infer(Current, l, <<>>)

RightType(l, r) == infer(LeftType(l).st, r, <<>>)

\* the `+` expression is typed as a numeric addition
TypedAsAddition(l, r) ==
  LET res == inferTypeBinaryExpression(Current, Bin("+", l, r), <<>>)
  IN  /\ res.st.thrown = ""
      /\ IsPrimitive(res.st, res.t, {Types.Number})
      /\ UnifiedWithNumber(res.st, LeftType(l).t, l)
      /\ UnifiedWithNumber(res.st, RightType(l, r).t, r)

RequiresMessage ==
  "The '+' operator requires either numeric operands or string operands at unknown position"

\* the `+` expression is rejected: one error on the expression, the operand
\* types left as they were, and a new type variable as its type
RejectedAddition(l, r) ==
  LET res == inferTypeBinaryExpression(Current, Bin("+", l, r), <<>>)
      operands == RightType(l, r).st
  IN  /\ res.st.thrown = ""
      /\ res.st.errors
           = Append(errors, [node |-> Bin("+", l, r),
                             message |-> RequiresMessage])
      /\ res.t = Len(operands.types) + 1
      /\ Len(res.st.types) = res.t
      /\ SubSeq(res.st.types, 1, Len(operands.types)) = operands.types
      /\ Unbound(res.st.types, res.t)

\* C19: a `+` expression of which neither operand resolves to String has
\* both operand types unified with Number and has type Number, whatever the
\* operands resolve to.
PlusAlwaysNumeric ==
  \A l \in PlusOperands, r \in PlusOperands :
    ~IsString(l) /\ ~IsString(r) => TypedAsAddition(l, r)

\* C19, amended: when each operand resolves to Number, Float or an unbound
\* type variable, both operand types are unified with Number and the
\* expression has type Number; when an operand resolves to Bool, an array
\* or a function, one error is reported on the expression, nothing is
\* unified and the expression's type is a new type variable.
PlusNumericOrRejected ==
  \A l \in PlusOperands, r \in PlusOperands :
    ~IsString(l) /\ ~IsString(r) =>
      IF IsNumericOrVariable(l) /\ IsNumericOrVariable(r)
      THEN TypedAsAddition(l, r)
      ELSE RejectedAddition(l, r)

\* a name bound to an unbound type variable is visible: added to 5 it
\* becomes a Number, added to `true` the expression is rejected
PlusOnVariableChecked ==
  \E e \in Operands :
    /\ e.type = "Identifier"
    /\ ResolvedCell(e).kind = "TypeVariable"
    /\ TypedAsAddition(e, Num(5, 10))
    /\ IsPrimitive(inferTypeBinaryExpression(Current,
                     Bin("+", e, Num(5, 10)), <<>>).st,
                   Resolve(inferTypeBinaryExpression(Current,
                     Bin("+", e, Num(5, 10)), <<>>).st.types, LeftType(e).t),
                   {Types.Number})
    /\ RejectedAddition(e, Bool(TRUE, 10))


\* the callees examined: the references that resolve to a function type
Callees == {e \in Operands : ResolvedCell(e).kind = "FunctionType"}

\* the argument lists examined: up to three operands
ArgumentLists ==
  {<<>>} \cup {<<a>> : a \in Operands}
    \cup {<<a, b>> : a \in Operands, b \in {Num(5, 10), Str("hello", 10)}}
    \cup {<<a, b, c>> : a \in {Num(5, 10)}, b \in {Str("hello", 10)},
                        c \in Operands}

\* fnType = compress(infer(node.callee)): the store and the function type
CalleeType(callee) ==
  Let(infer(Current, callee, <<"callee">>), LAMBDA f : compress(f.st, f.t))

ExpectedMessage(expected, got) ==
  "Expected " \o ToString(expected) \o " arguments but got " \o ToString(got)
    \o " at unknown position"

\* the errors that the inference leading to store st added
Added(st) == SubSeq(st.errors, Len(errors) + 1, Len(st.errors))

\* errors were reported on the arguments in the order of the arguments
InArgumentOrder(added, args) ==
  \A j \in DOMAIN added, k \in DOMAIN added :
    j <= k =>
      \E i1 \in DOMAIN args, i2 \in DOMAIN args :
        i1 <= i2 /\ added[j].node = args[i1] /\ added[k].node = args[i2]

\* after the call the parameter type and the argument's type are the same
\* type, unless unify reported on the argument; an argument that is a fresh
\* instance with unbound variables was bound in its own copy
UnifiedWithArgument(st, paramType, arg) ==
  \/ \E j \in DOMAIN Added(st) : Added(st)[j].node = arg
  \/ LET a == infer(st, arg, <<>>)
     IN  \/ Identical(a.st.types, paramType, a.t)
         \/ \E v \in Closure(a.st.types, {a.t}) : Unbound(a.st.types, v)

\* C20: a call whose callee resolves to a function type with another number
\* of parameters than there are arguments reports exactly one error and has
\* the function's return type; with equal numbers each argument's type is
\* unified with the parameter type at its position, in argument order, and
\* the call has the function's return type.
CallChecksArguments ==
  \A callee \in Callees, args \in ArgumentLists :
    LET node == Call(callee, args)
        res == inferTypeCallExpression(Current, node, <<>>)
        fnType == CalleeType(callee).st.types[CalleeType(callee).t]
    IN  /\ res.st.thrown = ""
        /\ res.t = fnType.returnType
        /\ IF Len(args) # Len(fnType.paramTypes)
           THEN /\ Added(res.st)
                     = <<[node |-> node,
                          message |-> ExpectedMessage(Len(fnType.paramTypes),
                                                      Len(args))]>>
                /\ Len(res.st.types) = Len(CalleeType(callee).st.types)
           ELSE /\ \A i \in DOMAIN args :
                     UnifiedWithArgument(res.st, fnType.paramTypes[i], args[i])
                /\ InArgumentOrder(Added(res.st), args)

\* f : (number, number) => number is visible: f(5) reports the one error,
\* f("hello", 5) reports on its first argument only, and both have type
\* Number
CallsOnFunctionChecked ==
  \E callee \in Callees :
    LET fnType == CalleeType(callee).st.types[CalleeType(callee).t]
        short == inferTypeCallExpression(Current,
                   Call(callee, <<Num(5, 10)>>), <<>>)
        exact == inferTypeCallExpression(Current,
                   Call(callee, <<Str("hello", 10), Num(5, 10)>>), <<>>)
    IN  /\ Len(fnType.paramTypes) = 2
        /\ Len(short.st.errors) = Len(errors) + 1
        /\ IsPrimitive(short.st, Resolve(short.st.types, short.t),
                       {Types.Number})
        /\ Len(exact.st.errors) = Len(errors) + 1
        /\ exact.st.errors[Len(exact.st.errors)].node = Str("hello", 10)
        /\ IsPrimitive(exact.st, Resolve(exact.st.types, exact.t),
                       {Types.Number})


\* the annotations examined: the four known names, an unknown name, an
\* array and a function annotation
Annotations ==
  {TypeAnnotation(n) : n \in {"number", "string", "boolean", "void", "Point"}}
    \cup {ArrayTypeAnnotation(TypeAnnotation("number")),
          FunctionTypeAnnotation(<<TypeAnnotation("number")>>,
                                 TypeAnnotation("string"))}

\* initType = infer(node.init)
InitType(init) == infer(Current, init, <<"body1", "init">>)

\* annotatedType = createTypeFromAnnotation(node.typeAnnotation)
AnnotatedType(init, annotation) ==
  createTypeFromAnnotation(InitType(init).st, annotation)

\* the declaration bound type t under the name, stored it in
\* node.inferredType and returned it
BoundStoredReturned(r, name, t) ==
  /\ r.st.thrown = ""
  /\ r.t = t
  /\ ScopeGet(r.st.currentScope, name, Len(r.st.currentScope)) = t
  /\ r.st.inferredType[<<"body1">>] = t

\* C21: a ConstDeclaration with a type annotation binds, stores and returns
\* the type converted from the annotation, never the initializer's type,
\* also when unifying the two reported an error; without an annotation it
\* binds, stores and returns the initializer's type.
ConstBindsAnnotation ==
  \A init \in Operands :
    /\ \A annotation \in Annotations :
         /\ BoundStoredReturned(
              inferTypeConstDeclaration(Current,
                AnnotatedConst("w", annotation, init), <<"body1">>),
              "w", AnnotatedType(init, annotation).t)
         /\ AnnotatedType(init, annotation).t > Len(InitType(init).st.types)
         /\ AnnotatedType(init, annotation).t # InitType(init).t
    /\ BoundStoredReturned(
         inferTypeConstDeclaration(Current, Const("w", init), <<"body1">>),
         "w", InitType(init).t)

\* const x: number = "hello"; has been checked: one error, and x is bound
\* to the Number of the annotation, which is stored on the declaration
AnnotationBound ==
  /\ last.op = "typecheck"
  /\ last.node
       = Program(<<AnnotatedConst("x", TypeAnnotation("number"),
                                  Str("hello", 18))>>)
  /\ last.outcome = "returned"
  /\ Len(last.errors) = 1
  /\ IsPrimitive(Current, ScopeGet(currentScope, "x", Len(currentScope)),
                 {Types.Number})
  /\ inferredType[<<"body1">>] = ScopeGet(currentScope, "x", Len(currentScope))


\* the annotations converted: those above, an unknown name inside an array
\* and a function annotation, and a node of an unknown kind
ConvertedAnnotations ==
  Annotations
    \cup {ArrayTypeAnnotation(TypeAnnotation("Point")),
          FunctionTypeAnnotation(<<TypeAnnotation("Point")>>,
                                 TypeAnnotation("Shape")),
          [type |-> "UnionTypeAnnotation"]}

RECURSIVE Unrecognized(_)
RECURSIVE UnrecognizedParams(_, _)
\* how many times converting the annotation takes a default case
Unrecognized(annotation) ==
  IF annotation.type = "TypeAnnotation"
  THEN IF annotation.valueType \in {"number", "string", "boolean", "void"}
       THEN 0 ELSE 1
  ELSE IF annotation.type = "ArrayTypeAnnotation"
  THEN Unrecognized(annotation.elementType)
  ELSE IF annotation.type = "FunctionTypeAnnotation"
  THEN Unrecognized(annotation.returnType)
         + UnrecognizedParams(annotation.paramTypes, 1)
  ELSE 1

UnrecognizedParams(params, i) ==
  IF i > Len(params) THEN 0
  ELSE Unrecognized(params[i].typeAnnotation)
         + UnrecognizedParams(params, i + 1)

\* what a conversion leaves alone whatever the annotation
ConversionFrame(r) ==
  /\ r.st.thrown = ""
  /\ r.st.errors = errors
  /\ r.st.currentScope = currentScope
  /\ r.st.nonGeneric = nonGeneric
  /\ r.st.inferredType = inferredType
  /\ Len(r.st.types) >= Len(types)
  /\ SubSeq(r.st.types, 1, Len(types)) = types

\* C22: createTypeFromAnnotation leaves the error list, the scope, the
\* non-generic set, the variable-id counter and every existing type
\* unchanged, for every annotation.
AnnotationConversionPure ==
  \A annotation \in ConvertedAnnotations :
    /\ ConversionFrame(createTypeFromAnnotation(Current, annotation))
    /\ createTypeFromAnnotation(Current, annotation).st.nextTypeVarId
         = nextTypeVarId

\* C22, amended: createTypeFromAnnotation leaves the error list, the scope,
\* the non-generic set and every existing type unchanged; the variable-id
\* counter advances by one for each unrecognized name or node kind in the
\* annotation, and is unchanged when there is none.
AnnotationConversionFrame ==
  \A annotation \in ConvertedAnnotations :
    /\ ConversionFrame(createTypeFromAnnotation(Current, annotation))
    /\ createTypeFromAnnotation(Current, annotation).st.nextTypeVarId
         = nextTypeVarId + Unrecognized(annotation)

\* const p: Point = 5; has been checked: the conversion of Point made the
\* one type variable of the run
UnknownAnnotationConverted ==
  /\ last.op = "typecheck"
  /\ last.node
       = Program(<<AnnotatedConst("p", TypeAnnotation("Point"), Num(5, 17))>>)
  /\ last.outcome = "returned"
  /\ last.errors = <<>>
  /\ nextTypeVarId = 1
  /\ types[ScopeGet(currentScope, "p", Len(currentScope))].kind
       = "TypeVariable"


\* C23: visited by infer, a ReturnStatement yields the type of its argument
\* when it has one and Void when it has none, without failing.
ReturnYieldsArgumentOrVoid ==
  /\ \A e \in Operands :
       LET r == infer(Current, Return(e), <<"body1">>)
       IN  /\ r.st.thrown = ""
           /\ r.t = infer(Current, e, <<"body1", "argument">>).t
           /\ r.st.types = infer(Current, e, <<"body1", "argument">>).st.types
  /\ LET r == infer(Current, ReturnNothing, <<"body1">>)
     IN  /\ r.st.thrown = ""
         /\ IsPrimitive(r.st, r.t, {Types.Void})


\* the names bound in no scope of the current chain
UnboundNames == Range(Names) \ VisibleNames

\* C24: getType of a name bound in no scope of the chain returns a newly
\* created, unbound type variable and does not fail.
UnboundNameGetsVariable ==
  \A name \in UnboundNames :
    LET r == getType(Current, name)
    IN  /\ r.st.thrown = ""
        /\ r.t = Len(types) + 1
        /\ Len(r.st.types) = Len(types) + 1
        /\ Unbound(r.st.types, r.t)

\* pairs of types that resolve to function types of different arity
DifferentArity ==
  { p \in Refs \X Refs :
      LET x == Resolve(types, p[1])
          y == Resolve(types, p[2])
      IN  /\ types[x].kind = "FunctionType"
          /\ types[y].kind = "FunctionType"
          /\ Len(types[x].paramTypes) # Len(types[y].paramTypes) }

\* C25: unifying two function types with different parameter counts appends
\* exactly one error and binds no type variable: every variable occurring in
\* either function type that was unbound before the call is unbound after it.
ArityMismatchBindsNothing ==
  \A p \in DifferentArity :
    LET r == unify(Current, p[1], p[2], TestNode)
    IN  /\ Len(r.errors) = Len(errors) + 1
        /\ includes(r.errors[Len(r.errors)].message,
                    "Function parameter count mismatch")
        /\ Len(r.types) = Len(types)
        /\ \A v \in Closure(types, {p[1], p[2]}) :
             Unbound(types, v) => Unbound(r.types, v)

\* a parameter count mismatch was reported for two function types whose
\* return types are distinct variables, both still unbound
ArityMismatchOnVariables ==
  /\ errors # <<>>
  /\ includes(errors[Len(errors)].message, "Function parameter count mismatch")
  /\ \E p \in DifferentArity :
       LET x == types[Resolve(types, p[1])]
           y == types[Resolve(types, p[2])]
       IN  /\ x.returnType # y.returnType
           /\ Unbound(types, x.returnType)
           /\ Unbound(types, y.returnType)

\* the bound variables on the symlink chain that starts at t
RECURSIVE Chain(_, _)
Chain(ts, t) ==
  IF ts[t].kind = "TypeVariable" /\ ts[t].symlink # NULL
  THEN {t} \cup Chain(ts, ts[t].symlink) ELSE {}

\* C26: compress(t) returns the type at the end of t's symlink chain, an
\* unbound variable or a non-variable type; afterwards every variable that was
\* on the chain points directly at it and no other type has changed; a second
\* compress, of the result or of t, returns the same type and changes nothing;
\* every type resolves to what it resolved to before.
CompressPointsChainAtEnd ==
  \A t \in Refs :
    LET r == compress(Current, t)
        ts == r.st.types
    IN  /\ r.t = Resolve(types, t)
        /\ types[r.t].kind = "TypeVariable" => types[r.t].symlink = NULL
        /\ \A v \in Chain(types, t) : ts[v] = [types[v] EXCEPT !.symlink = r.t]
        /\ \A v \in Refs \ Chain(types, t) : ts[v] = types[v]
        /\ Len(ts) = Len(types)
        /\ r.st = [Current EXCEPT !.types = ts]
        /\ compress(r.st, r.t) = r
        /\ compress(r.st, t) = r
        /\ \A v \in Refs : Resolve(ts, v) = Resolve(types, v)

\* a chain of two or more symlinks that compress shortens
LongChainCompressed ==
  \E t \in Refs :
    /\ Cardinality(Chain(types, t)) >= 2
    /\ compress(Current, t).st.types # types
    /\ types[Resolve(types, t)].kind # "TypeVariable"

(***************************************************************************)
(* The unification table of parse.js exercised directly: entries are made  *)
(* with freshTypeId and createConcreteType, then unify, which the module   *)
(* exports, and find are applied to any of the ids issued.  Ids run from   *)
(* 0 to MaxVars at most.                                                   *)
(***************************************************************************)
CurrentChecker == Checker(db, errors, nextTypeId, typeId)

TypeIds == 0 .. (Len(db) - 1)

TypeNames == {"Number", "String"}

InstallChecker(ck, op, ok) ==
  /\ db' = ck.db
  /\ errors' = ck.errors
  /\ nextTypeId' = ck.nextTypeId
  /\ typeId' = ck.typeId
  /\ last' = [op |-> op, ok |-> ok]
  /\ UNCHANGED <<types, currentScope, nonGeneric, nextTypeVarId,
                 inferredType>>

FreshTypeId ==
  /\ nextTypeId <= MaxVars
  /\ InstallChecker(freshTypeId(CurrentChecker).ck, "freshTypeId", TRUE)

CreateConcreteType(typeName) ==
  /\ nextTypeId <= MaxVars
  /\ InstallChecker(createConcreteType(CurrentChecker, typeName).ck,
                    "createConcreteType", TRUE)

Find(id) == InstallChecker(find(CurrentChecker, id).ck, "find", TRUE)

UnifyIds(typeId1, typeId2) ==
  Let(unifyIds(CurrentChecker, typeId1, typeId2), LAMBDA u :
    InstallChecker(u.ck, "unify", u.ok))

NextTable ==
  \/ FreshTypeId
  \/ \E typeName \in TypeNames : CreateConcreteType(typeName)
  \/ \E id \in TypeIds : Find(id)
  \/ \E typeId1 \in TypeIds, typeId2 \in TypeIds : UnifyIds(typeId1, typeId2)

SpecTable == Init /\ [][NextTable]_vars

\* the entry reached from id in at most n symlink steps
RECURSIVE Walk(_, _, _)
Walk(table, id, n) ==
  IF n = 0 \/ ~Has(table[id + 1], "symlink") THEN id
  ELSE Walk(table, table[id + 1].symlink, n - 1)

\* every symlink chain of the table ends
Acyclic(table) ==
  \A id \in 0 .. (Len(table) - 1) :
    ~Has(table[Walk(table, id, Len(table)) + 1], "symlink")

Root(table, id) == Walk(table, id, Len(table))

\* the two ids resolve to distinct concrete entries of different type names
Clash(table, typeId1, typeId2) ==
  LET a == table[Root(table, typeId1) + 1]
      b == table[Root(table, typeId2) + 1]
  IN  /\ Root(table, typeId1) # Root(table, typeId2)
      /\ Has(a, "concrete")
      /\ Has(b, "concrete")
      /\ a.concrete # b.concrete

\* C27: on ids of the table, unify of parse.js returns false exactly when the
\* two ids resolve to distinct concrete entries of different type names, and
\* then every id resolves to the concrete name it resolved to before; in
\* every other case it returns true and afterwards find gives the same id for
\* both; the symlink chains of db have no cycle, before and after the call
\* and after find.
UnifyIdsTotal ==
  /\ Acyclic(db)
  /\ \A id \in TypeIds :
       LET f == find(CurrentChecker, id)
       IN  /\ f.ck.thrown = ""
           /\ f.id = Root(db, id)
           /\ Acyclic(f.ck.db)
  /\ \A typeId1 \in TypeIds, typeId2 \in TypeIds :
       LET u == unifyIds(CurrentChecker, typeId1, typeId2)
       IN  /\ u.ck.thrown = ""
           /\ Acyclic(u.ck.db)
           /\ u.ok = ~Clash(db, typeId1, typeId2)
           /\ ~u.ok =>
                \A id \in TypeIds :
                  ConcreteNames(u.ck.db, id) = ConcreteNames(db, id)
           /\ u.ok => find(u.ck, typeId1).id = find(u.ck, typeId2).id

\* unify has just refused two concrete types, and some id reaches its
\* concrete entry over two or more symlinks
UnifyIdsRefused ==
  /\ last.op = "unify"
  /\ ~last.ok
  /\ \E id \in TypeIds :
       /\ Has(db[id + 1], "symlink")
       /\ Has(db[db[id + 1].symlink + 1], "symlink")
       /\ ConcreteNames(db, id) # {}

\* (x) => { const y = x; return y; }
ReturnOfBodyConst ==
  Arrow(<<Param("x")>>, <<Const("y", Id("x", 19)), Return(Id("y", 29))>>)

\* C28: statements of an arrow-function body take effect in source order:
\* inferring `(x) => { const y = x; return y; }` builds a function type whose
\* return type is the type of the body's const y, which is the type of the
\* parameter x.
BodyInSourceOrder ==
  LET r == inferTypeFunction(Current, ReturnOfBodyConst, <<"body1">>)
      built == r.st.types[Len(r.st.types)]
  IN  /\ Len(r.st.types) > Len(types)
      /\ built.kind = "FunctionType"
      /\ Len(built.paramTypes) = 1
      /\ Identical(r.st.types, built.returnType, built.paramTypes[1])

\* every variable bound in ts is bound in after, and one that resolved to a
\* non-variable type in ts resolves to that same, unchanged type in after
BindingsKept(ts, after) ==
  \A v \in DOMAIN ts :
    ts[v].kind = "TypeVariable" /\ ts[v].symlink # NULL =>
      /\ after[v].kind = "TypeVariable"
      /\ after[v].symlink # NULL
      /\ ts[Resolve(ts, v)].kind # "TypeVariable" =>
           /\ Resolve(after, v) = Resolve(ts, v)
           /\ after[Resolve(ts, v)] = ts[Resolve(ts, v)]

\* C29: bindings are monotonic: in every reachable type graph, also after a
\* failed unification, no call of unify, compress, freshInstance or
\* typeToString unbinds a bound variable or changes the non-variable type
\* that a variable resolves to, so a variable that resolves to a primitive
\* keeps resolving to it.
BindingsMonotonic ==
  /\ \A a \in Refs, b \in Refs :
       BindingsKept(types, unify(Current, a, b, TestNode).types)
  /\ \A a \in Refs :
       /\ BindingsKept(types, compress(Current, a).st.types)
       /\ BindingsKept(types, freshInstance(Current, a, NewMap).st.types)
       /\ BindingsKept(types, typeToString(Current, a).st.types)

\* a unification has failed while a variable resolves to a primitive over
\* another variable, and a further unify on that variable fails too
BoundAfterFailure ==
  /\ errors # <<>>
  /\ \E v \in Refs, p \in Refs :
       /\ types[v].kind = "TypeVariable"
       /\ types[v].symlink # NULL
       /\ types[types[v].symlink].kind = "TypeVariable"
       /\ types[Resolve(types, v)].kind = "PrimitiveType"
       /\ types[p].kind = "PrimitiveType"
       /\ Len(unify(Current, v, p, TestNode).errors) > Len(errors)

\* pairs of distinct function types with the same number of parameters
SameArity ==
  { p \in Refs \X Refs :
      /\ p[1] # p[2]
      /\ types[p[1]].kind = "FunctionType"
      /\ types[p[2]].kind = "FunctionType"
      /\ Len(types[p[1]].paramTypes) = Len(types[p[2]].paramTypes) }

\* the pairs unify visits for two function types: the parameters in order,
\* then the return types
Positions(f, g) ==
  [i \in 1 .. Len(types[f].paramTypes) |->
     <<types[f].paramTypes[i], types[g].paramTypes[i]>>]
    \o <<<<types[f].returnType, types[g].returnType>>>>

\* one unify call per pair, in order, whatever the calls before reported
RECURSIVE PairByPair(_, _, _)
PairByPair(st, pairs, i) ==
  IF i > Len(pairs) THEN st
  ELSE PairByPair(unify(st, pairs[i][1], pairs[i][2], TestNode), pairs, i + 1)

\* C30: unify of two function types of equal arity is not atomic: its outcome
\* is that of unifying the parameter pairs in order and then the return pair,
\* each on what the pairs before left, errors or not; no binding that was
\* there before is undone; and afterwards every pair either resolves to
\* identical types or cannot be unified at all.
FunctionUnifyPairwise ==
  \A p \in SameArity :
    LET r == unify(Current, p[1], p[2], TestNode)
        pairs == Positions(p[1], p[2])
    IN  /\ r = PairByPair(Current, pairs, 1)
        /\ BindingsKept(types, r.types)
        /\ \A i \in DOMAIN pairs :
             \/ Identical(r.types, pairs[i][1], pairs[i][2])
             \/ Len(unify(r, pairs[i][1], pairs[i][2], TestNode).errors)
                  > Len(r.errors)

\* a unify of two function types has failed on one pair and has bound a
\* variable of a later pair
BoundBesideFailure ==
  /\ errors # <<>>
  /\ \E p \in SameArity :
       LET pairs == Positions(p[1], p[2])
       IN  \E i \in DOMAIN pairs, j \in DOMAIN pairs :
             /\ i < j
             /\ ~Identical(types, pairs[i][1], pairs[i][2])
             /\ types[pairs[j][1]].kind = "TypeVariable"
             /\ types[pairs[j][1]].symlink # NULL
             /\ Identical(types, pairs[j][1], pairs[j][2])

====
